---- MODULE Spec2Model ----
(***************************************************************************)
(* Settings editor of the bot control panel (pages/2_Settings_Editor.py):  *)
(* the forward walk render_setting, the reverse walk                       *)
(* build_updated_settings, and the page script that loads, renders, saves  *)
(* and reloads the settings document.  The other pages (Dashboard.py,      *)
(* pages/1_Run_Bot.py, pages/3_Profile_Stats.py) are modelled by their     *)
(* configuration check, their fetches and, for the run page, its log       *)
(* buffer and controls.                                                    *)
(*                                                                         *)
(* Python values are tagged records [t, v]:                                *)
(*   null, bool, int, float (v counts tenths), str (v is the sequence of   *)
(*   its characters), list (v is the sequence of its elements) and map     *)
(*   (v is the sequence of <<key, value>> pairs in insertion order; a key  *)
(*   is a str, i.e. a sequence of characters).                             *)
(***************************************************************************)
EXTENDS Integers, Sequences, FiniteSets, TLC

\* ------------------------------------------------------------------------
\* Python values
\* ------------------------------------------------------------------------
PyNone == [t |-> "null", v |-> 0]
PyBool(b) == [t |-> "bool", v |-> b]
PyInt(n) == [t |-> "int", v |-> n]
PyFloat(tenths) == [t |-> "float", v |-> tenths]
PyStr(s) == [t |-> "str", v |-> s]
PyList(l) == [t |-> "list", v |-> l]
PyDict(items) == [t |-> "map", v |-> items]

\* outcome of an expression that raised an exception
Raised == [t |-> "raise", v |-> 0]

\* ------------------------------------------------------------------------
\* Python str operations, on sequences of characters
\* ------------------------------------------------------------------------
DigitChars == <<"0", "1", "2", "3", "4", "5", "6", "7", "8", "9">>

IsAsciiDigit(c) == \E i \in 1..10 : DigitChars[i] = c

DigitVal(c) == (CHOOSE i \in 1..10 : DigitChars[i] = c) - 1

\* "sup2" stands for the one character U+00B2 (superscript two): str.isdigit()
\* accepts it, int() does not
IsDigitChar(c) == IsAsciiDigit(c) \/ c = "sup2"

IsSpace(c) == c \in {" ", "\n"}

\* str.isdigit()
isdigit(s) == Len(s) > 0 /\ \A i \in 1..Len(s) : IsDigitChar(s[i])

RECURSIVE lstrip(_)
lstrip(s) == IF Len(s) > 0 /\ IsSpace(s[1]) THEN lstrip(Tail(s)) ELSE s

RECURSIVE rstrip(_)
rstrip(s) ==
    IF Len(s) > 0 /\ IsSpace(s[Len(s)]) THEN rstrip(SubSeq(s, 1, Len(s) - 1)) ELSE s

\* str.strip()
strip(s) == rstrip(lstrip(s))

\* str.splitlines(): the pieces between line breaks, no empty last piece
RECURSIVE SplitAcc(_, _, _)
SplitAcc(s, cur, acc) ==
    IF Len(s) = 0 THEN (IF Len(cur) = 0 THEN acc ELSE Append(acc, cur))
    ELSE IF s[1] = "\n" THEN SplitAcc(Tail(s), <<>>, Append(acc, cur))
    ELSE SplitAcc(Tail(s), Append(cur, s[1]), acc)

splitlines(s) == SplitAcc(s, <<>>, <<>>)

\* sep.join(parts)
RECURSIVE join(_, _)
join(sep, parts) ==
    IF Len(parts) = 0 THEN <<>>
    ELSE IF Len(parts) = 1 THEN parts[1]
    ELSE parts[1] \o sep \o join(sep, Tail(parts))

RECURSIVE DigitsValue(_, _)
DigitsValue(s, acc) ==
    IF Len(s) = 0 THEN acc ELSE DigitsValue(Tail(s), 10 * acc + DigitVal(s[1]))

RECURSIVE DigitsOf(_)
DigitsOf(n) ==
    IF n < 10 THEN <<DigitChars[n + 1]>>
    ELSE DigitsOf(n \div 10) \o <<DigitChars[(n % 10) + 1]>>

\* str(int)
StrOfInt(n) == IF n < 0 THEN <<"-">> \o DigitsOf(-n) ELSE DigitsOf(n)

\* str(float) of a float with one decimal, e.g. 7.5
StrOfFloat(f) ==
    IF f < 0 THEN <<"-">> \o DigitsOf((-f) \div 10) \o <<".">> \o DigitsOf((-f) % 10)
    ELSE DigitsOf(f \div 10) \o <<".">> \o DigitsOf(f % 10)

\* int(str): optional blanks, optional sign, ASCII digits; anything else is a
\* ValueError.  The result is the integer as a Python int.
IntOfStr(s) ==
    LET b == strip(s)
        signed == Len(b) > 0 /\ b[1] \in {"-", "+"}
        ds == IF signed THEN Tail(b) ELSE b
    IN  IF Len(ds) > 0 /\ \A i \in 1..Len(ds) : IsAsciiDigit(ds[i])
        THEN PyInt(IF signed /\ b[1] = "-" THEN -DigitsValue(ds, 0) ELSE DigitsValue(ds, 0))
        ELSE Raised

\* float(str) for the texts without exponent: blanks, sign, digits, and at most
\* one decimal after a point
FloatOfStr(s) ==
    LET b == strip(s)
        signed == Len(b) > 0 /\ b[1] \in {"-", "+"}
        ds == IF signed THEN Tail(b) ELSE b
        sgn == IF signed /\ b[1] = "-" THEN -1 ELSE 1
        AllDigits(x) == \A i \in 1..Len(x) : IsAsciiDigit(x[i])
    IN  IF Len(ds) > 0 /\ AllDigits(ds) THEN PyFloat(sgn * 10 * DigitsValue(ds, 0))
        ELSE IF Len(ds) > 2 /\ ds[Len(ds) - 1] = "." /\ AllDigits(SubSeq(ds, 1, Len(ds) - 2))
                /\ IsAsciiDigit(ds[Len(ds)])
        THEN PyFloat(sgn * (10 * DigitsValue(SubSeq(ds, 1, Len(ds) - 2), 0) + DigitVal(ds[Len(ds)])))
        ELSE Raised

\* the characters of the literals the page uses
TextNone == <<"N", "o", "n", "e">>
TextTrue == <<"T", "r", "u", "e">>
TextFalse == <<"F", "a", "l", "s", "e">>

\* repr(str): quoted, a line break written as backslash n (the texts of the
\* model hold no quote and no backslash)
RECURSIVE EscapeStr(_)
EscapeStr(s) ==
    IF Len(s) = 0 THEN <<>>
    ELSE (IF s[1] = "\n" THEN <<"\\", "n">> ELSE <<s[1]>>) \o EscapeStr(Tail(s))

\* repr(value), and str(value) which differs from it on str only
RECURSIVE repr(_)
repr(w) ==
    CASE w.t = "null" -> TextNone
      [] w.t = "bool" -> IF w.v THEN TextTrue ELSE TextFalse
      [] w.t = "int" -> StrOfInt(w.v)
      [] w.t = "float" -> StrOfFloat(w.v)
      [] w.t = "str" -> <<"'">> \o EscapeStr(w.v) \o <<"'">>
      [] w.t = "list" ->
            <<"[">> \o join(<<",", " ">>, [i \in 1..Len(w.v) |-> repr(w.v[i])]) \o <<"]">>
      [] w.t = "map" ->
            <<"{">> \o join(<<",", " ">>,
                            [i \in 1..Len(w.v) |->
                                repr(PyStr(w.v[i][1])) \o <<":", " ">> \o repr(w.v[i][2])])
                   \o <<"}">>

\* str(value)
str(w) == IF w.t = "str" THEN w.v ELSE repr(w)

\* truth value of a Python value: bool(value)
Truthy(w) ==
    CASE w.t = "null" -> FALSE
      [] w.t = "bool" -> w.v
      [] w.t \in {"int", "float"} -> w.v # 0
      [] w.t \in {"str", "list", "map"} -> Len(w.v) > 0

\* int(value); a float is truncated toward zero, None and containers raise
\* TypeError
int(w) ==
    CASE w.t = "int" -> w
      [] w.t = "bool" -> PyInt(IF w.v THEN 1 ELSE 0)
      [] w.t = "float" -> PyInt(IF w.v < 0 THEN -((-w.v) \div 10) ELSE w.v \div 10)
      [] w.t = "str" -> IntOfStr(w.v)
      [] OTHER -> Raised

\* float(value)
float(w) ==
    CASE w.t = "float" -> w
      [] w.t = "int" -> PyFloat(10 * w.v)
      [] w.t = "bool" -> PyFloat(IF w.v THEN 10 ELSE 0)
      [] w.t = "str" -> FloatOfStr(w.v)
      [] OTHER -> Raised

\* variant of StrippedNonEmpty: the empty lines are kept
StrippedKeepsEmpty(lines) == [i \in 1..Len(lines) |-> PyStr(strip(lines[i]))]

\* [line.strip() for line in lines if line.strip()]
RECURSIVE StrippedNonEmpty(_)
StrippedNonEmpty(lines) ==
    IF Len(lines) = 0 THEN <<>>
    ELSE (IF Len(strip(lines[1])) > 0 THEN <<PyStr(strip(lines[1]))>> ELSE <<>>)
         \o StrippedNonEmpty(Tail(lines))

\* variant of DigitLineInts: keeps every line that int() accepts instead of the
\* lines of digits
RECURSIVE DigitLineIntsParsed(_)
DigitLineIntsParsed(lines) ==
    IF Len(lines) = 0 THEN PyList(<<>>)
    ELSE LET here == strip(lines[1])
             rest == DigitLineIntsParsed(Tail(lines))
         IN  IF IntOfStr(here).t = "raise" THEN rest
             ELSE PyList(<<IntOfStr(here)>> \o rest.v)

\* [int(line.strip()) for line in lines if line.strip().isdigit()]; Raised when
\* an int() of the comprehension raises
RECURSIVE DigitLineInts(_)
DigitLineInts(lines) ==
    IF Len(lines) = 0 THEN PyList(<<>>)
    ELSE LET here == strip(lines[1])
             rest == DigitLineInts(Tail(lines))
         IN  IF ~isdigit(here) THEN rest
             ELSE IF IntOfStr(here).t = "raise" \/ rest.t = "raise" THEN Raised
             ELSE PyList(<<IntOfStr(here)>> \o rest.v)

\* ------------------------------------------------------------------------
\* The key names the page knows (Python str literals of the source)
\* ------------------------------------------------------------------------
KeyGlobal == <<"g", "l", "o", "b", "a", "l">>

KeyGoogleSheets == <<"g", "o", "o", "g", "l", "e", "_", "s", "h", "e", "e", "t", "s">>

KeyNewsletters == <<"n", "e", "w", "s", "l", "e", "t", "t", "e", "r", "s">>

KeyEngagement == <<"e", "n", "g", "a", "g", "e", "m", "e", "n", "t">>

KeyQuerySettings == <<"q", "u", "e", "r", "y", "_", "s", "e", "t", "t", "i", "n", "g", "s">>

KeyThreads == <<"t", "h", "r", "e", "a", "d", "s">>

KeyMode == <<"m", "o", "d", "e">>

KeyLogLevel == <<"l", "o", "g", "_", "l", "e", "v", "e", "l">>

KeyGroupId == <<"g", "r", "o", "u", "p", "_", "i", "d">>

KeySenderEmail == <<"s", "e", "n", "d", "e", "r", "_", "e", "m", "a", "i", "l">>

KeyAdIdentifiers == <<"a", "d", "_", "i", "d", "e", "n", "t", "i", "f", "i", "e", "r", "s">>

KeySkipSenders == <<"r", "e", "g", "u", "l", "a", "r", "_", "e", "n", "g", "a", "g", "e", "m", "e", "n", "t", "_", "s", "k", "i", "p", "_", "s", "e", "n", "d", "e", "r", "s">>

KeySerialNumbers == <<"s", "e", "r", "i", "a", "l", "_", "n", "u", "m", "b", "e", "r", "s">>

KeySessionTypes == <<"s", "e", "s", "s", "i", "o", "n", "_", "t", "y", "p", "e", "s">>

ModeOptions == <<<<"p", "r", "o", "d">>, <<"d", "e", "v">>>>

LogLevelOptions == <<<<"d", "e", "b", "u", "g">>, <<"i", "n", "f", "o">>, <<"w", "a", "r", "n", "i", "n", "g">>, <<"e", "r", "r", "o", "r">>, <<"c", "r", "i", "t", "i", "c", "a", "l">>>>

InSeq(x, seq) == \E i \in 1..Len(seq) : seq[i] = x

\* the characters in code point order, for str.lower() and for sorting keys
OrdChars ==
    <<"\n", " ", "'", "-", ".", "0", "1", "2", "3", "4", "5", "6", "7", "8", "9", ":",
      "A", "B", "C", "D", "E", "F", "G", "H", "I", "J", "K", "L", "M", "N", "O", "P", "Q",
      "R", "S", "T", "U", "V", "W", "X", "Y", "Z", "[", "\\", "]", "_",
      "a", "b", "c", "d", "e", "f", "g", "h", "i", "j", "k", "l", "m", "n", "o", "p", "q",
      "r", "s", "t", "u", "v", "w", "x", "y", "z", "{", "}", "sup2">>

Ord(c) == CHOOSE i \in 1..Len(OrdChars) : OrdChars[i] = c

\* str.lower()
lower(s) ==
    [i \in 1..Len(s) |->
        IF Ord(s[i]) >= Ord("A") /\ Ord(s[i]) <= Ord("Z")
        THEN OrdChars[Ord(s[i]) - Ord("A") + Ord("a")] ELSE s[i]]

\* a < b for two str
RECURSIVE StrLess(_, _)
StrLess(a, b) ==
    IF Len(b) = 0 THEN FALSE
    ELSE IF Len(a) = 0 THEN TRUE
    ELSE IF a[1] = b[1] THEN StrLess(Tail(a), Tail(b))
    ELSE Ord(a[1]) < Ord(b[1])

\* ------------------------------------------------------------------------
\* PyYAML, for the block-style texts the editor produces: a list of flat maps
\* ("- k: 5"), a list of scalars ("- 5"), a flat map ("k: 5"), "[]", one
\* plain scalar, a flow sequence of scalars ("[5, 'f']"), and the unterminated
\* flow sequence "[" as the parse error;
\* no key is repeated within one dict of a text.
\* ------------------------------------------------------------------------
\* the plain scalar a token resolves to
YamlScalar(tok) ==
    IF Len(tok) = 0 \/ tok \in {<<"n", "u", "l", "l">>, <<"~">>} THEN PyNone
    ELSE IF tok = <<"t", "r", "u", "e">> THEN PyBool(TRUE)
    ELSE IF tok = <<"f", "a", "l", "s", "e">> THEN PyBool(FALSE)
    ELSE IF IntOfStr(tok).t # "raise" /\ strip(tok) = tok THEN IntOfStr(tok)
    ELSE PyStr(tok)

\* the text of a scalar in a dump
YamlScalarText(w) ==
    CASE w.t = "null" -> <<"n", "u", "l", "l">>
      [] w.t = "bool" -> IF w.v THEN <<"t", "r", "u", "e">> ELSE <<"f", "a", "l", "s", "e">>
      [] w.t = "str" -> IF YamlScalar(w.v) = w THEN w.v ELSE <<"'">> \o w.v \o <<"'">>
      [] OTHER -> repr(w)

\* the items of a dict sorted by key (sort_keys is on by default in dump)
RECURSIVE SortedItems(_)
SortedItems(items) ==
    IF Len(items) = 0 THEN <<>>
    ELSE LET m == CHOOSE i \in 1..Len(items) :
                      \A j \in 1..Len(items) : ~StrLess(items[j][1], items[i][1])
             rest == [j \in 1..(Len(items) - 1) |-> IF j < m THEN items[j] ELSE items[j + 1]]
         IN  <<items[m]>> \o SortedItems(rest)

\* the block of one list element that is a dict
YamlItemText(d) ==
    IF Len(d.v) = 0 THEN <<"-", " ", "{", "}", "\n">>
    ELSE LET its == SortedItems(d.v)
             Line(i) == (IF i = 1 THEN <<"-", " ">> ELSE <<" ", " ">>)
                        \o its[i][1] \o <<":", " ">> \o YamlScalarText(its[i][2]) \o <<"\n">>
         IN  join(<<>>, [i \in 1..Len(its) |-> Line(i)])

\* pyyaml.dump(value, indent=2, default_flow_style=False) of a list of dicts
yaml_dump(value) ==
    IF Len(value.v) = 0 THEN <<"[", "]", "\n">>
    ELSE join(<<>>, [i \in 1..Len(value.v) |-> YamlItemText(value.v[i])])

\* "key: scalar" as [ok, key, value]; ok is FALSE when the text is not of that form
YamlKeyValue(text) ==
    LET colons == {i \in 1..Len(text) :
                      text[i] = ":" /\ (i = Len(text) \/ text[i + 1] = " ")}
        none == [ok |-> FALSE, key |-> <<>>, value |-> PyNone]
    IN  IF colons = {} THEN none
        ELSE LET c == CHOOSE i \in colons : \A j \in colons : i <= j
                 k == SubSeq(text, 1, c - 1)
             IN  IF Len(k) = 0 \/ \E i \in 1..Len(k) : k[i] \in {" ", "-", "[", "]", "{", "}", "'"}
                 THEN none
                 ELSE [ok |-> TRUE, key |-> k,
                       value |-> YamlScalar(strip(SubSeq(text, c + 1, Len(text))))]

StartsWith(text, prefix) ==
    Len(text) >= Len(prefix) /\ SubSeq(text, 1, Len(prefix)) = prefix

\* the dicts of the lines "- k: v" / "  k: v"
RECURSIVE YamlMaps(_, _)
YamlMaps(lines, acc) ==
    IF Len(lines) = 0 THEN PyList(acc)
    ELSE LET kv == YamlKeyValue(SubSeq(lines[1], 3, Len(lines[1])))
         IN  IF ~kv.ok THEN Raised
             ELSE IF StartsWith(lines[1], <<"-", " ">>)
             THEN YamlMaps(Tail(lines), Append(acc, PyDict(<<<<kv.key, kv.value>>>>)))
             ELSE IF StartsWith(lines[1], <<" ", " ">>) /\ Len(acc) > 0
                     /\ \A i \in 1..Len(acc[Len(acc)].v) : acc[Len(acc)].v[i][1] # kv.key
             THEN YamlMaps(Tail(lines),
                           [acc EXCEPT ![Len(acc)] =
                               PyDict(Append(acc[Len(acc)].v, <<kv.key, kv.value>>))])
             ELSE Raised

RECURSIVE NonBlank(_)
NonBlank(lines) ==
    IF Len(lines) = 0 THEN <<>>
    ELSE (IF Len(strip(lines[1])) > 0 THEN <<lines[1]>> ELSE <<>>) \o NonBlank(Tail(lines))

IsPlainToken(text) ==
    /\ Len(text) > 0
    /\ text[1] \notin {"-", "[", "]", "{", "}", "'", ":"} \/ (Len(text) > 1 /\ text[1] = "-" /\ text[2] # " ")
    /\ \A i \in 1..Len(text) : text[i] \notin {"[", "]", "{", "}", "'", ":"}

\* the texts between the commas of a flow sequence
RECURSIVE FlowItems(_, _)
FlowItems(text, item) ==
    IF Len(text) = 0 THEN <<strip(item)>>
    ELSE IF text[1] = "," THEN <<strip(item)>> \o FlowItems(Tail(text), <<>>)
    ELSE FlowItems(Tail(text), Append(item, text[1]))

\* one scalar of a flow sequence: single-quoted or plain
YamlFlowScalar(tok) ==
    IF Len(tok) >= 2 /\ tok[1] = "'" /\ tok[Len(tok)] = "'"
       /\ \A i \in 2..(Len(tok) - 1) : tok[i] # "'"
    THEN PyStr(SubSeq(tok, 2, Len(tok) - 1))
    ELSE IF IsPlainToken(tok) THEN YamlScalar(tok)
    ELSE Raised

\* "[a, b]" on one line: the list of its scalars
YamlFlowSequence(line) ==
    LET items == FlowItems(SubSeq(line, 2, Len(line) - 1), <<>>)
    IN  IF \E i \in 1..Len(items) : YamlFlowScalar(items[i]).t = "raise" THEN Raised
        ELSE PyList([i \in 1..Len(items) |-> YamlFlowScalar(items[i])])

\* pyyaml.safe_load(stream); a stream that is not text raises
yaml_load(w) ==
    IF w.t # "str" THEN Raised
    ELSE LET lines == NonBlank(splitlines(w.v))
             IsEntry(l) == StartsWith(l, <<"-", " ">>)
         IN  IF Len(lines) = 0 THEN PyNone
             ELSE IF Len(lines) = 1 /\ strip(lines[1]) = <<"[", "]">> THEN PyList(<<>>)
             ELSE IF Len(lines) = 1 /\ Len(strip(lines[1])) > 2
                     /\ strip(lines[1])[1] = "[" /\ strip(lines[1])[Len(strip(lines[1]))] = "]"
             THEN YamlFlowSequence(strip(lines[1]))
             ELSE IF Len(lines) = 1 /\ strip(lines[1]) = <<"-", " ", "{", "}">>
             THEN PyList(<<PyDict(<<>>)>>)
             ELSE IF IsEntry(lines[1]) /\ YamlKeyValue(SubSeq(lines[1], 3, Len(lines[1]))).ok
             THEN YamlMaps(lines, <<>>)
             ELSE IF \A i \in 1..Len(lines) :
                         IsEntry(lines[i]) /\ IsPlainToken(strip(SubSeq(lines[i], 3, Len(lines[i]))))
             THEN PyList([i \in 1..Len(lines) |->
                              YamlScalar(strip(SubSeq(lines[i], 3, Len(lines[i]))))])
             ELSE IF \A i \in 1..Len(lines) : YamlKeyValue(lines[i]).ok
             THEN (IF \A i, j \in 1..Len(lines) :
                         i # j => YamlKeyValue(lines[i]).key # YamlKeyValue(lines[j]).key
                   THEN PyDict([i \in 1..Len(lines) |->
                                   <<YamlKeyValue(lines[i]).key, YamlKeyValue(lines[i]).value>>])
                   ELSE Raised)
             ELSE IF Len(lines) = 1 /\ IsPlainToken(strip(lines[1]))
             THEN YamlScalar(strip(lines[1]))
             ELSE Raised

\* ------------------------------------------------------------------------
\* State
\* ------------------------------------------------------------------------
VARIABLES
    session_state,      \* st.session_state: key (str) -> Python value
    PYYAML_AVAILABLE,   \* whether the import of yaml succeeded
    pc,                 \* where the page script is: "run", "build", "save",
                        \* "reload", "idle" (finished, waiting for the operator),
                        \* "crashed" (stopped by an uncaught exception)
    trigger,            \* the button that started this run: "none", "save", "reload"
    updated_settings,   \* the payload built at line 229, a local of the run
    warnings,           \* widget keys st.warning was called for in this run
    shown,              \* the message the last run left on the page
    backend,            \* the document the backend serves on GET /settings
    cache,              \* st.cache_data entry of fetch_settings_data_from_api
    now,                \* seconds on the clock
    gets                \* GET /settings requests that reached the backend

VARIABLES
    BOT_API_URL,        \* whether the secret BOT_API_URL is set
    API_KEY,            \* whether the secret BOT_API_KEY is set
    page,               \* the page script this session runs: "dashboard", "run_bot",
                        \* "settings_editor" or "profile_stats"
    key_warning         \* the warning about the missing key is on the page

VARIABLES
    profiles,           \* version of the profile data behind /history and /all_logs
    history_cache,      \* st.cache_data entry of fetch_history_data_from_api
    stats_cache,        \* st.cache_data entry of fetch_stats_data_from_api
    history_gets,       \* GET /history requests that reached the backend
    stats_gets,         \* GET /all_logs requests that reached the backend
    fetched,            \* [at, value]: when the last run called its cached fetch,
                        \* and what the call returned
    actions,            \* the list of actions handed to filter_actions_by_time
    filtered_actions    \* the list it returned

VARIABLES
    bot_api_status,     \* st.session_state.bot_api_status["state"]
    last_status_fetch_time, \* st.session_state.last_status_fetch_time
    bot_logs,           \* st.session_state.bot_logs: the log buffer, a list of lines
    run_disabled,       \* the run button on the page is disabled
    stop_disabled,      \* the stop button on the page is disabled
    bot_state,          \* the state of the bot the backend reports on GET /status
    bot_batch,          \* the batch of lines the backend returns on GET /logs
    logs_fetch,         \* the call of fetch_logs_from_api in the last step of the
                        \* run page, if any: [outcome, batch, before]
    commands,           \* POST /control requests sent
    bot_contacted       \* a request to /status, /logs or /control was sent

configVars == <<BOT_API_URL, API_KEY, page>>

dataVars == <<profiles, history_cache, stats_cache, history_gets, stats_gets, fetched,
              actions, filtered_actions>>

botVars == <<bot_api_status, last_status_fetch_time, bot_logs, run_disabled, stop_disabled,
             bot_state, bot_batch, logs_fetch, commands, bot_contacted>>

vars == <<session_state, PYYAML_AVAILABLE, pc, trigger, updated_settings, warnings,
          shown, backend, cache, now, gets, BOT_API_URL, API_KEY, page, key_warning,
          profiles, history_cache, stats_cache, history_gets, stats_gets, fetched,
          actions, filtered_actions,
          bot_api_status, last_status_fetch_time, bot_logs, run_disabled, stop_disabled,
          bot_state, bot_batch, logs_fetch, commands, bot_contacted>>

\* variant of ConfigError: a missing key stops the page as well
ConfigErrorOrNoKey == ~BOT_API_URL \/ ~API_KEY

\* if not BOT_API_URL: st.error(...); st.stop() -- the check that ends a run;
\* a missing BOT_API_KEY gives a warning only
ConfigError == ~BOT_API_URL

KeyCurrentSettingsData == <<"c", "u", "r", "r", "e", "n", "t", "_", "s", "e", "t", "t", "i", "n", "g", "s", "_", "d", "a", "t", "a">>

KeySettingsFetchError == <<"s", "e", "t", "t", "i", "n", "g", "s", "_", "f", "e", "t", "c", "h", "_", "e", "r", "r", "o", "r">>

current_settings_data == session_state[KeyCurrentSettingsData]

settings_fetch_error == session_state[KeySettingsFetchError]

\* d[k] = v on a dict held as a function
SetItem(d, k, v) == [x \in DOMAIN d \cup {k} |-> IF x = k THEN v ELSE d[x]]

\* ------------------------------------------------------------------------
\* render_setting: the forward walk
\* ------------------------------------------------------------------------
\* unique_key = '_'.join(map(str, key_path))
unique_key(key_path) == join(<<"_">>, key_path)

ListKeysTextarea == <<KeySenderEmail, KeyAdIdentifiers, KeySkipSenders, KeySerialNumbers>>

\* the value= a widget is created with, which is what the widget holds until
\* the operator changes it (a selectbox holds options[index])
InitialValue(key, value) ==
    CASE value.t \in {"bool", "int", "float"} -> value
      [] value.t = "str" ->
            IF key = KeyMode
            THEN PyStr(IF InSeq(value.v, ModeOptions) THEN value.v ELSE ModeOptions[1])
            ELSE IF key = KeyLogLevel
            THEN PyStr(IF InSeq(lower(value.v), LogLevelOptions)
                       THEN lower(value.v) ELSE LogLevelOptions[2])
            ELSE IF key = KeyGroupId THEN PyStr(str(value))
            ELSE value
      [] value.t = "list" ->
            IF InSeq(key, ListKeysTextarea)
            THEN PyStr(join(<<"\n">>, [i \in 1..Len(value.v) |-> str(value.v[i])]))
            ELSE IF key = KeySessionTypes /\ PYYAML_AVAILABLE
                    /\ \A i \in 1..Len(value.v) : value.v[i].t = "map"
            THEN PyStr(yaml_dump(value))
            ELSE PyStr(str(value))
      [] value.t = "null" -> IF key = KeyGroupId THEN PyStr(<<>>) ELSE PyStr(TextNone)

\* whether the widget of a leaf is created with disabled=True
Disabled(key, value) ==
    \/ value.t = "null" /\ key # KeyGroupId
    \/ /\ value.t = "list"
       /\ ~InSeq(key, ListKeysTextarea)
       /\ ~(key = KeySessionTypes /\ PYYAML_AVAILABLE
            /\ \A i \in 1..Len(value.v) : value.v[i].t = "map")

\* Contains(sub, s): sub in s
Contains(sub, s) ==
    \E i \in 1..(Len(s) - Len(sub) + 1) : SubSeq(s, i, i + Len(sub) - 1) = sub

\* variant of IntBounds: line 94 is left out
IntBoundsWithoutThreads(key) ==
    LET timing == \/ Contains(<<"i", "n", "t", "e", "r", "v", "a", "l">>, key)
                  \/ Contains(<<"w", "a", "i", "t">>, key)
                  \/ Contains(<<"a", "g", "e">>, key)
        backup == key = <<"b", "a", "c", "k", "u", "p", "_", "i", "n", "t", "e", "r", "v", "a", "l">>
    IN  [min |-> IF backup THEN {5} ELSE IF timing THEN {0} ELSE {}, max |-> {}]

\* min_value and max_value of the number_input of an int leaf (lines 93-96);
\* a bound is a set, empty for None
IntBounds(key) ==
    LET threads == key = KeyThreads
        timing == \/ Contains(<<"i", "n", "t", "e", "r", "v", "a", "l">>, key)
                  \/ Contains(<<"w", "a", "i", "t">>, key)
                  \/ Contains(<<"a", "g", "e">>, key)
        backup == key = <<"b", "a", "c", "k", "u", "p", "_", "i", "n", "t", "e", "r", "v", "a", "l">>
    IN  [min |-> IF backup THEN {5} ELSE IF timing THEN {0} ELSE IF threads THEN {1} ELSE {},
         max |-> IF threads THEN {4} ELSE {}]

\* the widget render_setting creates for one leaf
Field(key_path, value) ==
    LET key == key_path[Len(key_path)]
    IN  [path |-> key_path,
         wkey |-> unique_key(key_path),
         value |-> value,
         initial |-> InitialValue(key, value),
         disabled |-> Disabled(key, value),
         bounds |-> IF value.t = "int" THEN IntBounds(key) ELSE [min |-> {}, max |-> {}]]

\* render_setting(key_path, value): the widgets it creates, in order; a dict
\* renders its items (line 129), every other value is one widget
RECURSIVE render_setting(_, _)
render_setting(key_path, value) ==
    IF value.t = "map"
    THEN join(<<>>, [i \in 1..Len(value.v) |->
                        render_setting(Append(key_path, value.v[i][1]), value.v[i][2])])
    ELSE <<Field(key_path, value)>>

\* dict lookups on a map value
HasKey(d, k) == \E i \in 1..Len(d.v) : d.v[i][1] = k

Get(d, k) == d.v[CHOOSE i \in 1..Len(d.v) : d.v[i][1] = k][2]

\* one expander of the form: if name in settings_data: render_setting([name], ...)
RenderSection(name, settings_data) ==
    IF HasKey(settings_data, name)
    THEN render_setting(<<name>>, Get(settings_data, name))
    ELSE <<>>

\* the newsletters expander renders each newsletter of a dict, nothing otherwise
RenderNewsletters(settings_data) ==
    IF HasKey(settings_data, KeyNewsletters) /\ Get(settings_data, KeyNewsletters).t = "map"
    THEN LET nl_conf == Get(settings_data, KeyNewsletters)
         IN  join(<<>>, [i \in 1..Len(nl_conf.v) |->
                            render_setting(<<KeyNewsletters, nl_conf.v[i][1]>>, nl_conf.v[i][2])])
    ELSE <<>>

\* variant of FormFields: every top-level key of the document is rendered
FormFieldsOfAllKeys(settings_data) ==
    join(<<>>, [i \in 1..Len(settings_data.v) |->
                   render_setting(<<settings_data.v[i][1]>>, settings_data.v[i][2])])

\* the widgets of the form (lines 207-222): the five expanders in source order
FormFields(settings_data) ==
    RenderSection(KeyGlobal, settings_data)
    \o RenderSection(KeyGoogleSheets, settings_data)
    \o RenderNewsletters(settings_data)
    \o RenderSection(KeyEngagement, settings_data)
    \o RenderSection(KeyQuerySettings, settings_data)

\* A keyed widget: a key met twice in one run raises DuplicateWidgetID; a key
\* already in the session state keeps its value; a new key gets the initial one.
DuplicateWidgetID(fields) ==
    \E i, j \in 1..Len(fields) : i < j /\ fields[i].wkey = fields[j].wkey

RECURSIVE RunWidgets(_, _)
RunWidgets(fields, ss) ==
    IF Len(fields) = 0 THEN ss
    ELSE RunWidgets(Tail(fields),
                    IF fields[1].wkey \in DOMAIN ss THEN ss
                    ELSE SetItem(ss, fields[1].wkey, fields[1].initial))

\* ------------------------------------------------------------------------
\* build_updated_settings: the reverse walk
\* ------------------------------------------------------------------------
SimpleListKeys == <<KeySenderEmail, KeyAdIdentifiers, KeySkipSenders>>

\* variant of GroupIdValue: the raw value is assigned as it is
GroupIdValueRaw(widget_value) == widget_value

\* line 156: widget_value if widget_value else None
GroupIdValue(widget_value) == IF Truthy(widget_value) THEN widget_value ELSE PyNone

\* the try block of lines 148-158: the value assigned to updated_dict[key], or
\* Raised when a conversion raises
Converted(key, original_value, widget_value) ==
    IF original_value.t = "bool" THEN PyBool(Truthy(widget_value))
    ELSE IF original_value.t = "int" THEN int(widget_value)
    ELSE IF original_value.t = "float" THEN float(widget_value)
    ELSE IF original_value.t = "list" /\ InSeq(key, SimpleListKeys)
    THEN (IF widget_value.t = "str"
          THEN PyList(StrippedNonEmpty(splitlines(widget_value.v))) ELSE Raised)
    ELSE IF original_value.t = "list" /\ key = KeySerialNumbers
    THEN (IF widget_value.t = "str" THEN DigitLineInts(splitlines(widget_value.v)) ELSE Raised)
    ELSE IF original_value.t = "list" /\ key = KeySessionTypes /\ PYYAML_AVAILABLE
    THEN LET parsed == yaml_load(widget_value)
         IN  IF parsed.t = "raise" THEN Raised
             ELSE IF parsed.t = "list" THEN parsed ELSE original_value
    ELSE IF key = KeyGroupId THEN GroupIdValue(widget_value)
    ELSE IF original_value.t = "str" THEN PyStr(str(widget_value))
    ELSE widget_value

\* variant of UpdatedLeaf: a failed conversion leaves the raw widget value
UpdatedLeafKeepsRaw(key, original_value, current_key_path) ==
    LET widget_key == unique_key(current_key_path)
    IN  IF widget_key \in DOMAIN session_state
        THEN LET c == Converted(key, original_value, session_state[widget_key])
             IN  IF c.t = "raise" THEN session_state[widget_key] ELSE c
        ELSE original_value

\* variant of UpdatedLeaf: a failed conversion leaves None
UpdatedLeafNoneOnError(key, original_value, current_key_path) ==
    LET widget_key == unique_key(current_key_path)
    IN  IF widget_key \in DOMAIN session_state
        THEN LET c == Converted(key, original_value, session_state[widget_key])
             IN  IF c.t = "raise" THEN PyNone ELSE c
        ELSE original_value

\* lines 145-163: the updated value of one leaf
UpdatedLeaf(key, original_value, current_key_path) ==
    LET widget_key == unique_key(current_key_path)
    IN  IF widget_key \in DOMAIN session_state
        THEN LET c == Converted(key, original_value, session_state[widget_key])
             IN  IF c.t = "raise" THEN original_value ELSE c
        ELSE original_value

\* variant of build_updated_settings: a leaf without a widget is left out
RECURSIVE BuildWithoutUnbound(_, _)
BuildWithoutUnbound(original_data_structure, key_path) ==
    IF original_data_structure.t = "map"
    THEN LET items == original_data_structure.v
             Kept(i) == items[i][2].t = "map"
                        \/ unique_key(Append(key_path, items[i][1])) \in DOMAIN session_state
             RECURSIVE Walk(_)
             Walk(i) ==
                 IF i > Len(items) THEN <<>>
                 ELSE (IF ~Kept(i) THEN <<>>
                       ELSE IF items[i][2].t = "map"
                       THEN <<<<items[i][1],
                                BuildWithoutUnbound(items[i][2], Append(key_path, items[i][1]))>>>>
                       ELSE <<<<items[i][1],
                                UpdatedLeaf(items[i][1], items[i][2],
                                            Append(key_path, items[i][1]))>>>>)
                      \o Walk(i + 1)
         IN  PyDict(Walk(1))
    ELSE original_data_structure

RECURSIVE build_updated_settings(_, _)
build_updated_settings(original_data_structure, key_path) ==
    IF original_data_structure.t = "map"
    THEN PyDict([i \in 1..Len(original_data_structure.v) |->
                    LET key == original_data_structure.v[i][1]
                        original_value == original_data_structure.v[i][2]
                        current_key_path == Append(key_path, key)
                    IN  <<key,
                          IF original_value.t = "map"
                          THEN build_updated_settings(original_value, current_key_path)
                          ELSE UpdatedLeaf(key, original_value, current_key_path)>>])
    ELSE original_data_structure

\* the widget keys st.warning is called for (lines 159-161), in walk order
RECURSIVE BuildWarnings(_, _)
BuildWarnings(original_data_structure, key_path) ==
    IF original_data_structure.t = "map"
    THEN LET Of(i) ==
                 LET key == original_data_structure.v[i][1]
                     original_value == original_data_structure.v[i][2]
                     current_key_path == Append(key_path, key)
                     widget_key == unique_key(current_key_path)
                 IN  IF original_value.t = "map"
                     THEN BuildWarnings(original_value, current_key_path)
                     ELSE IF widget_key \in DOMAIN session_state
                             /\ Converted(key, original_value, session_state[widget_key]).t = "raise"
                     THEN <<widget_key>>
                     ELSE <<>>
         IN  join(<<>>, [i \in 1..Len(original_data_structure.v) |-> Of(i)])
    ELSE <<>>

\* ------------------------------------------------------------------------
\* The backend and the cached fetch
\* ------------------------------------------------------------------------
SettingsTTL == 30

NoCache == [at |-> -1, value |-> PyNone, error |-> FALSE]

\* st.cache_data(ttl=30): an entry answers while it is younger than the ttl
CacheHit == cache # NoCache /\ now - cache.at < SettingsTTL

FetchErrorText == <<"A", "P", "I", " ", "E", "r", "r", "o", "r">>

HistoryTTL == 60

StatsTTL == 60

\* variant of HistoryCacheHit: an entry never expires
HistoryCacheHitForever == history_cache # NoCache

HistoryCacheHit == history_cache # NoCache /\ now - history_cache.at < HistoryTTL

StatsCacheHit == stats_cache # NoCache /\ now - stats_cache.at < StatsTTL

NotFetched == [at |-> -1, value |-> PyNone]

KeyProfile == <<"p">>

\* data['profiles'] of the backend's answer: no profile before the bot has
\* written any, one profile afterwards
Profiles(n) == IF n = 0 THEN PyDict(<<>>) ELSE PyDict(<<<<KeyProfile, PyInt(n)>>>>)

\* ------------------------------------------------------------------------
\* The documents and the operator's inputs the model explores
\* ------------------------------------------------------------------------
MaxLen == 2

MaxTime == 61

MaxGets == 3

MaxVersion == 1

MaxCommands == 1

KeyX == <<"x">>

KeyY == <<"y">>

KeyK == <<"k">>

KeyN == <<"n">>

KeyOther == <<"o", "t", "h", "e", "r">>

KeyGlobalX == KeyGlobal \o <<"_">> \o KeyX

KeyXY == KeyX \o <<"_">> \o KeyY

TextF == <<"f">>

KeyA == <<"a">>

KeyB == <<"b">>

KeyC == <<"c">>

\* the document {"a": true, "b": {"c": 3}}, and the same under "global"
ScenarioDoc ==
    PyDict(<<<<KeyA, PyBool(TRUE)>>, <<KeyB, PyDict(<<<<KeyC, PyInt(3)>>>>)>>>>)

ScenarioGlobalDoc == PyDict(<<<<KeyGlobal, ScenarioDoc>>>>)

LeafEntries ==
    {<<KeyX, v>> : v \in {PyNone, PyBool(TRUE), PyInt(5), PyFloat(75), PyStr(TextF),
                          PyStr(<<>>), PyList(<<PyInt(5)>>), PyList(<<PyStr(TextF)>>)}}
    \cup {<<KeyGroupId, v>> : v \in {PyNone, PyStr(<<>>), PyStr(<<"5", "7">>)}}
    \cup {<<KeySerialNumbers, v>> :
             v \in {PyList(<<>>), PyList(<<PyInt(5)>>), PyList(<<PyInt(5), PyInt(7)>>),
                    PyList(<<PyInt(-5)>>), PyList(<<PyStr(<<"5">>)>>)}}
    \cup {<<KeySenderEmail, v>> :
             v \in {PyList(<<PyStr(TextF)>>), PyList(<<PyStr(TextF), PyStr(<<"5">>)>>),
                    PyList(<<PyInt(5)>>)}}
    \cup {<<KeyAdIdentifiers, PyList(<<PyStr(TextF)>>)>>,
          <<KeySkipSenders, PyList(<<PyStr(<<" ", "f">>)>>)>>}
    \cup {<<KeyMode, PyStr(v)>> : v \in {ModeOptions[2], TextF}}
    \cup {<<KeyLogLevel, PyStr(<<"I", "N", "F", "O">>)>>}
    \cup {<<KeySessionTypes, v>> :
             v \in {PyList(<<>>), PyList(<<PyInt(5)>>),
                    PyList(<<PyDict(<<<<KeyK, PyInt(5)>>>>)>>)}}
    \cup {<<KeyThreads, PyInt(n)>> : n \in {3, 7}}

SecondEntries == {<<KeyY, v>> : v \in {PyBool(TRUE), PyInt(5), PyStr(TextF)}}

\* the leaves edited in a text area
AreaEntries == {e \in LeafEntries : e[2].t = "list" /\ InSeq(e[1], ListKeysTextarea)}

Sections ==
    {PyDict(<<e>>) : e \in LeafEntries}
    \cup {PyDict(<<e, f>>) : e \in LeafEntries \ AreaEntries, f \in SecondEntries}
    \cup {PyDict(<<e, <<KeyY, PyBool(TRUE)>>>>) :
             e \in {<<KeySerialNumbers, PyList(<<PyInt(5)>>)>>,
                    <<KeySenderEmail, PyList(<<PyStr(TextF)>>)>>}}

\* what follows the global section: a top-level leaf or section the page does
\* not render, or a newsletter
Extras ==
    {<<<<KeyGlobalX, v>>>> :
        v \in {PyNone, PyBool(TRUE), PyInt(5), PyFloat(75), PyStr(TextF)}}
    \cup {<<<<KeyOther, PyDict(<<<<KeyX, PyInt(5)>>>>)>>>>,
          <<<<KeyNewsletters, PyDict(<<<<KeyN, PyDict(<<<<KeyX, PyStr(TextF)>>>>)>>>>)>>>>}

Docs ==
    {PyDict(<<<<KeyGlobal, sec>>>>) : sec \in Sections}
    \cup {PyDict(<<<<KeyGlobal, PyDict(<<e>>)>>>> \o extra) :
             e \in {f \in LeafEntries : f[1] = KeyX}, extra \in Extras}
    \cup {PyDict(<<<<KeyGlobal, PyDict(<<<<KeyX, PyDict(<<<<KeyY, PyBool(TRUE)>>>>)>>,
                                       <<KeyXY, PyInt(5)>>>>)>>>>),
          PyDict(<<<<KeyGlobal, PyInt(5)>>, <<KeyEngagement, PyDict(<<>>)>>>>),
          ScenarioDoc, ScenarioGlobalDoc}

\* the documents whose rendering depends on PyYAML
YamlDocs ==
    {d \in Docs : /\ HasKey(d, KeyGlobal)
                  /\ Get(d, KeyGlobal).t = "map"
                  /\ HasKey(Get(d, KeyGlobal), KeySessionTypes)}

\* the documents of the backend in the page life cycle
PageDocs ==
    {PyDict(<<>>),
     PyDict(<<<<KeyGlobal, PyDict(<<<<KeyX, PyBool(TRUE)>>>>)>>>>),
     PyDict(<<<<KeyGlobal, PyDict(<<<<KeyX, PyInt(5)>>>>)>>, <<KeyGlobalX, PyInt(7)>>>>)}

AreaAlphabet == {"5", "-", " ", "\n", "f", "sup2"}

\* the texts over an alphabet up to a length
TextsUpTo(alphabet, n) == UNION {[1..k -> alphabet] : k \in 0..n}

ExampleTexts ==
    {<<"5", "\n", "f", "o", "o", "\n", "7">>, <<"f", "\n", "5", "\n", "\n", "-", "5">>,
     <<"a", "\n", "b", "\n", "\n", "c">>}

AreaTexts == TextsUpTo(AreaAlphabet, MaxLen) \cup ExampleTexts

Texts == {<<>>, TextF, <<"5">>, <<"4", "2">>}

YamlTexts ==
    {<<>>, <<"[", "]">>, <<"[">>, <<"5">>, <<"-", " ", "5">>, <<"k", ":", " ", "7">>,
     <<"-", " ", "k", ":", " ", "7", "\n">>,
     <<"-", " ", "k", ":", " ", "7", "\n", "-", " ", "y", ":", " ", "f", "\n">>}

IntInputs == {0, 3, 7}

FloatInputs == {0, 5, 75}

InBounds(n, bounds) ==
    /\ \A m \in bounds.min : n >= m
    /\ \A m \in bounds.max : n <= m

\* the values the operator can put in a widget
Inputs(field) ==
    LET key == field.path[Len(field.path)]
    IN  IF field.disabled THEN {}
        ELSE CASE field.value.t = "bool" -> {PyBool(TRUE), PyBool(FALSE)}
               [] field.value.t = "int" ->
                     {PyInt(n) : n \in {m \in IntInputs : InBounds(m, field.bounds)}}
               [] field.value.t = "float" -> {PyFloat(f) : f \in FloatInputs}
               [] field.value.t = "list" ->
                     IF key = KeySessionTypes THEN {PyStr(x) : x \in YamlTexts}
                     ELSE {PyStr(x) : x \in AreaTexts}
               [] field.value.t = "str" /\ key = KeyMode ->
                     {PyStr(ModeOptions[i]) : i \in 1..Len(ModeOptions)}
               [] field.value.t = "str" /\ key = KeyLogLevel ->
                     {PyStr(LogLevelOptions[i]) : i \in 1..Len(LogLevelOptions)}
               [] OTHER -> {PyStr(x) : x \in Texts}

\* ------------------------------------------------------------------------
\* The page script
\* ------------------------------------------------------------------------
\* number_input raises when value is outside [min_value, max_value]
ValueOutOfBounds(fields) ==
    \E i \in 1..Len(fields) :
        fields[i].value.t = "int" /\ ~InBounds(fields[i].value.v, fields[i].bounds)

\* the form is on the page and its widgets can be used
FormShown ==
    pc = "idle" /\ shown \in {"form", "save_failed"}

\* variant of NotLoaded: a document whose cache entry has expired counts as
\* not loaded
NotLoadedOrStale == current_settings_data = PyNone \/ ~CacheHit

\* line 183: if st.session_state.current_settings_data is None
NotLoaded == current_settings_data = PyNone

\* lines 183-192: the document is not in memory; fetch it through the cache,
\* record the outcome, rerun
LoadSettings ==
    /\ page = "settings_editor"
    /\ pc = "run"
    /\ ~ConfigError
    /\ NotLoaded
    /\ \E ok \in BOOLEAN :
          LET entry == IF CacheHit THEN cache
                       ELSE [at |-> now,
                             value |-> IF ok THEN backend ELSE PyNone,
                             error |-> ~ok]
          IN  /\ CacheHit \/ gets < MaxGets
              /\ CacheHit => ok
              /\ cache' = entry
              /\ gets' = IF CacheHit THEN gets ELSE gets + 1
              /\ session_state' =
                    SetItem(SetItem(session_state, KeyCurrentSettingsData, entry.value),
                            KeySettingsFetchError,
                            IF entry.error THEN PyStr(FetchErrorText) ELSE PyNone)
    /\ pc' = "run"
    /\ trigger' = "none"
    /\ key_warning' = ~API_KEY
    /\ UNCHANGED <<PYYAML_AVAILABLE, updated_settings, warnings, shown, backend, now>>
    /\ UNCHANGED <<configVars, dataVars, botVars>>

\* lines 195-225 and 246-248: the document is in memory; show the recorded
\* fetch error and stop, or render the form, then go on to the pressed button
RenderPage ==
    /\ page = "settings_editor"
    /\ pc = "run"
    /\ ~ConfigError
    /\ ~NotLoaded
    /\ IF Truthy(settings_fetch_error)
       THEN IF trigger = "retry"
            THEN /\ session_state' = SetItem(session_state, KeyCurrentSettingsData, PyNone)
                 /\ pc' = "run"
                 /\ UNCHANGED shown
            ELSE /\ shown' = "fetch_error"
                 /\ pc' = "idle"
                 /\ UNCHANGED session_state
       ELSE IF Truthy(current_settings_data)
       THEN LET fields == FormFields(current_settings_data)
            IN  IF DuplicateWidgetID(fields) \/ ValueOutOfBounds(fields)
                THEN /\ shown' = "exception"
                     /\ pc' = "crashed"
                     /\ UNCHANGED session_state
                ELSE /\ session_state' = RunWidgets(fields, session_state)
                     /\ shown' = "form"
                     /\ pc' = CASE trigger = "save" -> "build"
                                [] trigger = "reload" -> "reload"
                                [] OTHER -> "idle"
       ELSE /\ shown' = "no_data"
            /\ pc' = IF trigger = "reload" THEN "reload" ELSE "idle"
            /\ UNCHANGED session_state
    /\ trigger' = "none"
    /\ key_warning' = ~API_KEY
    /\ UNCHANGED <<PYYAML_AVAILABLE, updated_settings, warnings, backend, cache, now, gets>>
    /\ UNCHANGED <<configVars, dataVars, botVars>>

\* the operator changes the value of one widget of the form (the value reaches
\* the session state with the submit; no run reads it before)
EditField ==
    /\ page = "settings_editor"
    /\ FormShown
    /\ \E i \in 1..Len(FormFields(current_settings_data)) :
          \E w \in Inputs(FormFields(current_settings_data)[i]) :
             /\ session_state[FormFields(current_settings_data)[i].wkey] # w
             /\ session_state' =
                   SetItem(session_state, FormFields(current_settings_data)[i].wkey, w)
    /\ UNCHANGED <<PYYAML_AVAILABLE, pc, trigger, updated_settings, warnings, shown,
                   backend, cache, now, gets>>
    /\ UNCHANGED <<configVars, key_warning, dataVars, botVars>>

\* the buttons on the page that can be pressed: those of the settings editor
\* once its run has ended, those of the run page while its script sleeps
Buttons ==
    IF page = "settings_editor"
    THEN (IF pc # "idle" THEN {}
          ELSE IF shown = "fetch_error" THEN {"retry"}
          ELSE IF FormShown THEN {"save", "reload"}
          ELSE {"reload"})
    ELSE IF page = "run_bot" /\ pc = "sleep"
    THEN {"refresh"}
         \cup (IF ~run_disabled /\ commands < MaxCommands THEN {"start"} ELSE {})
         \cup (IF ~stop_disabled /\ commands < MaxCommands THEN {"stop"} ELSE {})
    ELSE {}

\* the operator presses a button, which starts a run of the script
Press(button) ==
    /\ button \in Buttons
    /\ pc' = "run"
    /\ trigger' = button
    /\ UNCHANGED <<session_state, PYYAML_AVAILABLE, updated_settings, warnings, shown,
                   backend, cache, now, gets>>
    /\ UNCHANGED <<configVars, key_warning, dataVars, botVars>>

\* lines 227-229: submitted; build the payload from the session state
BuildUpdated ==
    /\ pc = "build"
    /\ updated_settings' = build_updated_settings(current_settings_data, <<>>)
    /\ warnings' = BuildWarnings(current_settings_data, <<>>)
    /\ pc' = "save"
    /\ UNCHANGED <<session_state, PYYAML_AVAILABLE, trigger, shown, backend, cache, now, gets>>
    /\ UNCHANGED <<configVars, key_warning, dataVars, botVars>>

\* variant of SaveSettings: a failed save discards the session as a successful
\* one does
SaveSettingsDiscardsOnFailure ==
    /\ pc = "save"
    /\ \E save_success \in BOOLEAN :
          IF save_success
          THEN /\ now < MaxTime
               /\ backend' = updated_settings
               /\ shown' = "saved"
               /\ cache' = NoCache
               /\ history_cache' = NoCache
               /\ stats_cache' = NoCache
               /\ session_state' = SetItem(session_state, KeyCurrentSettingsData, PyNone)
               /\ now' = now + 1
               /\ pc' = "run"
          ELSE /\ shown' = "save_failed"
               /\ cache' = NoCache
               /\ history_cache' = NoCache
               /\ stats_cache' = NoCache
               /\ session_state' = SetItem(session_state, KeyCurrentSettingsData, PyNone)
               /\ pc' = "run"
               /\ UNCHANGED <<backend, now>>
    /\ updated_settings' = PyNone
    /\ warnings' = <<>>
    /\ UNCHANGED <<PYYAML_AVAILABLE, trigger, gets>>
    /\ UNCHANGED <<configVars, key_warning, profiles, history_gets, stats_gets, fetched, actions, filtered_actions,
                   botVars>>

\* lines 232-241: post the payload; on success clear the cache, drop the
\* document, sleep a second and rerun; on failure show the message
SaveSettings ==
    /\ pc = "save"
    /\ \E save_success \in BOOLEAN :
          IF save_success
          THEN /\ now < MaxTime
               /\ backend' = updated_settings
               /\ shown' = "saved"
               /\ cache' = NoCache
               /\ history_cache' = NoCache
               /\ stats_cache' = NoCache
               /\ session_state' = SetItem(session_state, KeyCurrentSettingsData, PyNone)
               /\ now' = now + 1
               /\ pc' = "run"
          ELSE /\ shown' = "save_failed"
               /\ pc' = "idle"
               /\ UNCHANGED <<backend, cache, history_cache, stats_cache, session_state, now>>
    /\ updated_settings' = PyNone
    /\ warnings' = <<>>
    /\ UNCHANGED <<PYYAML_AVAILABLE, trigger, gets>>
    /\ UNCHANGED <<configVars, key_warning, profiles, history_gets, stats_gets, fetched, actions, filtered_actions,
                   botVars>>

\* variant of ReloadSettings: the cache is not cleared
ReloadSettingsKeepsCache ==
    /\ pc = "reload"
    /\ session_state' = SetItem(session_state, KeyCurrentSettingsData, PyNone)
    /\ pc' = "run"
    /\ UNCHANGED <<PYYAML_AVAILABLE, trigger, updated_settings, warnings, shown, backend,
                   cache, now, gets>>
    /\ UNCHANGED <<configVars, key_warning, dataVars, botVars>>

\* lines 248-251: the reload button was pressed; st.cache_data.clear() empties
\* the cache of every cached function
ReloadSettings ==
    /\ pc = "reload"
    /\ cache' = NoCache
    /\ history_cache' = NoCache
    /\ stats_cache' = NoCache
    /\ session_state' = SetItem(session_state, KeyCurrentSettingsData, PyNone)
    /\ pc' = "run"
    /\ UNCHANGED <<PYYAML_AVAILABLE, trigger, updated_settings, warnings, shown, backend,
                   now, gets>>
    /\ UNCHANGED <<configVars, key_warning, profiles, history_gets, stats_gets, fetched, actions, filtered_actions,
                   botVars>>

\* time passes between two steps of a page: one second less than the shorter
\* cache window, or the whole of it (the run page passes its time asleep)
Tick ==
    /\ page # "run_bot"
    /\ \E d \in {SettingsTTL - 1, SettingsTTL} :
          /\ now + d <= MaxTime
          /\ now' = now + d
    /\ UNCHANGED <<session_state, PYYAML_AVAILABLE, pc, trigger, updated_settings, warnings,
                   shown, backend, cache, gets>>
    /\ UNCHANGED <<configVars, key_warning, dataVars, botVars>>

\* lines 174-175 (and 82-83 of the run page, 118-122 of the dashboard, 78 of
\* the statistics page): without BOT_API_URL the run shows the error and stops
ConfigHalt ==
    /\ pc = "run"
    /\ ConfigError
    /\ shown' = "config_error"
    /\ pc' = "stopped"
    /\ trigger' = "none"
    /\ UNCHANGED <<session_state, PYYAML_AVAILABLE, updated_settings, warnings, backend,
                   cache, now, gets>>
    /\ UNCHANGED <<configVars, key_warning, dataVars, botVars>>

\* ------------------------------------------------------------------------
\* Dashboard.py and pages/3_Profile_Stats.py
\* ------------------------------------------------------------------------
\* Dashboard.py lines 118-136: the run of the dashboard up to the message about
\* the history; profiles_data is None when the fetch failed, and the run stops
DashboardRun ==
    /\ page = "dashboard"
    /\ pc = "run"
    /\ ~ConfigError
    /\ \E ok \in BOOLEAN :
          LET entry == IF HistoryCacheHit THEN history_cache
                       ELSE [at |-> now,
                             value |-> IF ok THEN Profiles(profiles) ELSE PyNone,
                             error |-> ~ok]
          IN  /\ HistoryCacheHit \/ history_gets < MaxGets
              /\ HistoryCacheHit => ok
              /\ history_cache' = entry
              /\ history_gets' = IF HistoryCacheHit THEN history_gets ELSE history_gets + 1
              /\ fetched' = [at |-> now, value |-> entry.value]
              /\ shown' = IF entry.value = PyNone THEN "history_unavailable"
                          ELSE IF Truthy(entry.value) THEN "history" ELSE "no_history"
              /\ pc' = IF entry.value = PyNone THEN "stopped" ELSE "idle"
    /\ key_warning' = ~API_KEY
    /\ trigger' = "none"
    /\ UNCHANGED <<session_state, PYYAML_AVAILABLE, updated_settings, warnings, backend,
                   cache, now, gets>>
    /\ UNCHANGED <<configVars, profiles, stats_cache, stats_gets, actions, filtered_actions,
                   botVars>>

\* pages/3_Profile_Stats.py lines 78-92: the run of the statistics page up to
\* the message about the data; with an error the run stops
StatsRun ==
    /\ page = "profile_stats"
    /\ pc = "run"
    /\ ~ConfigError
    /\ \E ok \in BOOLEAN :
          LET entry == IF StatsCacheHit THEN stats_cache
                       ELSE [at |-> now,
                             value |-> IF ok THEN Profiles(profiles) ELSE PyNone,
                             error |-> ~ok]
          IN  /\ StatsCacheHit \/ stats_gets < MaxGets
              /\ StatsCacheHit => ok
              /\ stats_cache' = entry
              /\ stats_gets' = IF StatsCacheHit THEN stats_gets ELSE stats_gets + 1
              /\ fetched' = [at |-> now, value |-> entry.value]
              /\ shown' = IF entry.error THEN "stats_error"
                          ELSE IF Truthy(entry.value) THEN "stats" ELSE "no_stats"
              /\ pc' = IF entry.error THEN "stopped" ELSE "idle"
    /\ key_warning' = ~API_KEY
    /\ trigger' = "none"
    /\ UNCHANGED <<session_state, PYYAML_AVAILABLE, updated_settings, warnings, backend,
                   cache, now, gets>>
    /\ UNCHANGED <<configVars, profiles, history_cache, history_gets, actions, filtered_actions,
                   botVars>>

\* the operator uses a sidebar widget of the dashboard or of the statistics
\* page, or loads the page again in the browser: the script runs again
Interact ==
    /\ page \in {"dashboard", "profile_stats"}
    /\ pc \in {"idle", "stopped"}
    /\ pc' = "run"
    /\ UNCHANGED <<session_state, PYYAML_AVAILABLE, trigger, updated_settings, warnings,
                   shown, backend, cache, now, gets>>
    /\ UNCHANGED <<configVars, key_warning, dataVars, botVars>>

\* the bot writes profile data; the pages that show it are the dashboard and
\* the statistics page
BackendChanges ==
    /\ page \in {"dashboard", "profile_stats"}
    /\ profiles < MaxVersion
    /\ profiles' = profiles + 1
    /\ UNCHANGED <<session_state, PYYAML_AVAILABLE, pc, trigger, updated_settings, warnings,
                   shown, backend, cache, now, gets>>
    /\ UNCHANGED <<configVars, key_warning, history_cache, stats_cache, history_gets,
                   stats_gets, fetched, actions, filtered_actions,
                   botVars>>

\* ------------------------------------------------------------------------
\* pages/1_Run_Bot.py
\* ------------------------------------------------------------------------
STATUS_REFRESH_INTERVAL_ACTIVE == 3

STATUS_REFRESH_INTERVAL_IDLE == 30

\* time.time() counts from 1970: the 0 of line 19 lies far before the session
Epoch == -1000

\* the lines of the log buffer (the markers without their clock time)
LineWaiting == "--- Waiting for bot connection ---"

LineNotRunning == "--- Bot is not running ---"

LineStart == "--- Sending 'start' command ---"

LineStop == "--- Sending 'stop' command ---"

LineInvalidFormat == "--- Error fetching logs: Invalid format ---"

LineInvalidJson == "--- Error fetching logs: Invalid JSON ---"

Line1 == "line 1"

Line2 == "line 2"

NoFetch == [outcome |-> "none", batch |-> <<>>, before |-> <<>>]

\* the ways a GET can end: a good answer, an answer of the wrong shape, a
\* RequestException (connection, timeout, HTTP status), a body that is no JSON
Outcomes == {"ok", "invalid_format", "network", "invalid_json"}

ActiveStates == {"running", "starting", "stopping"}

\* lines 90-91 and 170-171
refresh_interval(current_state) ==
    IF current_state \in ActiveStates THEN STATUS_REFRESH_INTERVAL_ACTIVE
    ELSE STATUS_REFRESH_INTERVAL_IDLE

\* fetch_status_from_api() at the time t with the backend in the state reported:
\* the new bot_api_status["state"] and last_status_fetch_time
fetch_status_from_api(outcome, reported, t) ==
    CASE outcome = "ok" -> [state |-> reported, last |-> t]
      [] outcome = "network" -> [state |-> "error", last |-> t]
      [] OTHER -> [state |-> "error", last |-> last_status_fetch_time]

\* variant of fetch_logs_from_api: a RequestException puts an error line in
\* front of the buffer (the assignment commented out at line 69)
FetchLogsErrorLine(outcome, logs) ==
    CASE outcome = "ok" -> bot_batch
      [] outcome = "invalid_format" -> <<LineInvalidFormat>>
      [] outcome = "network" -> <<LineInvalidFormat>> \o logs
      [] outcome = "invalid_json" -> <<LineInvalidJson>>

\* fetch_logs_from_api() on the buffer logs: the new buffer
fetch_logs_from_api(outcome, logs) ==
    CASE outcome = "ok" -> bot_batch
      [] outcome = "invalid_format" -> <<LineInvalidFormat>>
      [] outcome = "network" -> logs
      [] outcome = "invalid_json" -> <<LineInvalidJson>>

\* lines 82-109: the run page checks the configuration, then fetches the
\* status when it is due, and the logs when the bot is active
RunBotRefresh ==
    /\ page = "run_bot"
    /\ pc = "run"
    /\ ~ConfigError
    /\ LET needs_refresh ==
               now - last_status_fetch_time > refresh_interval(bot_api_status)
       IN  IF needs_refresh \/ bot_api_status = "unknown"
           THEN \E so \in Outcomes, lo \in Outcomes :
                   LET status == fetch_status_from_api(so, bot_state, now)
                   IN  /\ bot_api_status' = status.state
                       /\ last_status_fetch_time' = status.last
                       /\ bot_contacted' = TRUE
                       /\ IF status.state \in ActiveStates
                          THEN /\ bot_logs' = fetch_logs_from_api(lo, bot_logs)
                               /\ logs_fetch' = [outcome |-> lo, batch |-> bot_batch,
                                                 before |-> bot_logs]
                          ELSE /\ lo = "ok"
                               /\ bot_logs' = <<LineNotRunning>>
                               /\ logs_fetch' = NoFetch
           ELSE /\ logs_fetch' = NoFetch
                /\ UNCHANGED <<bot_api_status, last_status_fetch_time, bot_logs, bot_contacted>>
    /\ pc' = "controls"
    /\ key_warning' = ~API_KEY
    /\ UNCHANGED <<session_state, PYYAML_AVAILABLE, trigger, updated_settings, warnings,
                   shown, backend, cache, now, gets>>
    /\ UNCHANGED <<configVars, dataVars, run_disabled, stop_disabled, bot_state, bot_batch,
                   commands>>

\* what the backend makes of a command it accepts
Commanded(action) ==
    IF action = "start"
    THEN (IF bot_state \in {"idle", "stopped", "error"} THEN "starting" ELSE bot_state)
    ELSE (IF bot_state \in {"running", "starting"} THEN "stopping" ELSE bot_state)

\* variant of RunDisabled: the run button is disabled while the bot runs or
\* stops only
RunDisabledWhileRunning(current_state) == current_state \in {"running", "stopping"}

\* line 115: run_disabled = current_state not in ["idle", "error", "stopped"]
RunDisabled(current_state) == current_state \notin {"idle", "error", "stopped"}

\* line 124: stop_disabled = current_state not in ["running", "starting"]
StopDisabled(current_state) == current_state \notin {"running", "starting"}

\* lines 112-131: the two control buttons; a pressed button writes its marker
\* to the buffer, sends the command, sleeps a second after a success, fetches
\* status and logs and reruns.  The run button changes its type, and with it
\* its identity, when it becomes disabled, so a press of the enabled button
\* is lost on a run that disables it; the stop button keeps its identity, and
\* whether a run that disables it still sees the press is left open.
RunBotControls ==
    /\ page = "run_bot"
    /\ pc = "controls"
    /\ run_disabled' = RunDisabled(bot_api_status)
    /\ stop_disabled' = StopDisabled(bot_api_status)
    /\ \E seen \in BOOLEAN :
       IF \/ trigger = "start" /\ ~RunDisabled(bot_api_status)
          \/ trigger = "stop" /\ (seen \/ ~StopDisabled(bot_api_status))
       THEN \E accepted \in BOOLEAN, so \in Outcomes, lo \in Outcomes :
               LET marked == IF trigger = "start" THEN <<LineStart>>
                             ELSE Append(bot_logs, LineStop)
                   reported == IF accepted THEN Commanded(trigger) ELSE bot_state
                   t == IF accepted THEN now + 1 ELSE now
                   status == fetch_status_from_api(so, reported, t)
               IN  /\ t <= MaxTime
                   /\ commands' = commands + 1
                   /\ bot_state' = reported
                   /\ now' = t
                   /\ shown' = IF accepted THEN "command_sent" ELSE "command_failed"
                   /\ bot_api_status' = status.state
                   /\ last_status_fetch_time' = status.last
                   /\ bot_logs' = fetch_logs_from_api(lo, marked)
                   /\ logs_fetch' = [outcome |-> lo, batch |-> bot_batch, before |-> marked]
                   /\ bot_contacted' = TRUE
                   /\ pc' = "run"
                   /\ trigger' = "none"
       ELSE /\ pc' = "display"
            /\ logs_fetch' = NoFetch
            /\ trigger' = IF trigger = "refresh" THEN trigger ELSE "none"
            /\ UNCHANGED <<commands, bot_state, now, shown, bot_api_status,
                           last_status_fetch_time, bot_logs, bot_contacted>>
    /\ UNCHANGED <<session_state, PYYAML_AVAILABLE, updated_settings, warnings, backend,
                   cache, gets>>
    /\ UNCHANGED <<configVars, key_warning, dataVars, bot_batch>>

\* lines 133-164: status line and log buffer are shown; the refresh button
\* fetches the status, the logs when the bot is active, and reruns
RunBotDisplay ==
    /\ page = "run_bot"
    /\ pc = "display"
    /\ shown' = "status"
    /\ IF trigger = "refresh"
       THEN \E so \in Outcomes, lo \in Outcomes :
               LET status == fetch_status_from_api(so, bot_state, now)
               IN  /\ bot_api_status' = status.state
                   /\ last_status_fetch_time' = status.last
                   /\ bot_contacted' = TRUE
                   /\ IF status.state \in ActiveStates
                      THEN /\ bot_logs' = fetch_logs_from_api(lo, bot_logs)
                           /\ logs_fetch' = [outcome |-> lo, batch |-> bot_batch,
                                             before |-> bot_logs]
                      ELSE /\ lo = "ok"
                           /\ logs_fetch' = NoFetch
                           /\ UNCHANGED bot_logs
                   /\ pc' = "run"
                   /\ trigger' = "none"
       ELSE /\ pc' = "sleep"
            /\ logs_fetch' = NoFetch
            /\ UNCHANGED <<bot_api_status, last_status_fetch_time, bot_logs, bot_contacted,
                           trigger>>
    /\ UNCHANGED <<session_state, PYYAML_AVAILABLE, updated_settings, warnings, backend,
                   cache, now, gets>>
    /\ UNCHANGED <<configVars, key_warning, dataVars, run_disabled, stop_disabled, bot_state,
                   bot_batch, commands>>

\* lines 167-174: time.sleep(refresh_interval); st.rerun()
AutoRefresh ==
    /\ page = "run_bot"
    /\ pc = "sleep"
    /\ now + refresh_interval(bot_api_status) <= MaxTime
    /\ now' = now + refresh_interval(bot_api_status)
    /\ pc' = "run"
    /\ UNCHANGED <<session_state, PYYAML_AVAILABLE, trigger, updated_settings, warnings,
                   shown, backend, cache, gets>>
    /\ UNCHANGED <<configVars, key_warning, dataVars, botVars>>

\* the bot goes on by itself: it comes up, writes a line, ends
BotProgress ==
    /\ \/ bot_state = "starting" /\ bot_state' = "running" /\ bot_batch' = <<Line1>>
       \/ bot_state = "running" /\ bot_batch = <<Line1>>
          /\ bot_batch' = <<Line1, Line2>> /\ UNCHANGED bot_state
       \/ bot_state \in {"running", "stopping"} /\ bot_state' = "stopped"
          /\ UNCHANGED bot_batch
    /\ UNCHANGED <<session_state, PYYAML_AVAILABLE, pc, trigger, updated_settings, warnings,
                   shown, backend, cache, now, gets>>
    /\ UNCHANGED <<configVars, key_warning, dataVars, bot_api_status, last_status_fetch_time,
                   bot_logs, run_disabled, stop_disabled, logs_fetch, commands, bot_contacted>>


\* ------------------------------------------------------------------------
\* Specifications
\* ------------------------------------------------------------------------
\* ------------------------------------------------------------------------
\* Dashboard.py: filter_actions_by_time
\* ------------------------------------------------------------------------
\* datetime.datetime.now(), in hours on the local wall clock, and the days of
\* line 199
NowWall == 240

FilterDays == 7

\* the value of action.get('timestamp'): None, or a string that is empty, no
\* date at all, a date and time without offset, one with an offset of so many
\* hours, or one that ends with Z
NoTimestamp == [t |-> "null", form |-> "none", wall |-> 0, offset |-> 0]

TimestampStr(form, wall, offset) ==
    [t |-> "str", form |-> form, wall |-> wall, offset |-> offset]

\* a datetime: the wall clock reading, and the tzinfo if it has one
Datetime(wall, aware, offset) == [wall |-> wall, aware |-> aware, offset |-> offset]

\* lines 83-87: timestamp_str.replace('Z', '+00:00'), then fromisoformat and
\* the two strptime formats; a ValueError when none of them parses the string
ParseTimestamp(timestamp_str) ==
    CASE timestamp_str.form = "naive" ->
            [t |-> "datetime", v |-> Datetime(timestamp_str.wall, FALSE, 0)]
      [] timestamp_str.form = "offset" ->
            [t |-> "datetime", v |-> Datetime(timestamp_str.wall, TRUE, timestamp_str.offset)]
      [] timestamp_str.form = "zulu" ->
            [t |-> "datetime", v |-> Datetime(timestamp_str.wall, TRUE, 0)]
      [] OTHER -> [t |-> "raise", v |-> Datetime(0, FALSE, 0)]

\* a >= b on datetimes: a TypeError when one has a tzinfo and the other has
\* none, the order of the instants when both have one, of the wall clock
\* readings when neither has
DatetimeGE(a, b) ==
    IF a.aware # b.aware THEN [t |-> "raise", v |-> FALSE]
    ELSE IF a.aware THEN [t |-> "bool", v |-> a.wall - a.offset >= b.wall - b.offset]
    ELSE [t |-> "bool", v |-> a.wall >= b.wall]

\* line 88: cutoff_time.replace(tzinfo=timestamp_dt.tzinfo) keeps the wall
\* clock reading and attaches the tzinfo
ReplaceTzinfo(dt, aware, offset) == Datetime(dt.wall, aware, offset)

\* variant of NextCutoff: the cutoff of the next action is the one the loop
\* started with
NextCutoffReset(cutoff_time, timestamp_dt) == Datetime(cutoff_time.wall, FALSE, 0)

\* line 88 assigns to cutoff_time, the variable of the function: the cutoff
\* with the tzinfo of this action is the cutoff of the actions after it
NextCutoff(cutoff_time, timestamp_dt) ==
    IF timestamp_dt.aware
    THEN ReplaceTzinfo(cutoff_time, TRUE, timestamp_dt.offset)
    ELSE cutoff_time

\* lines 88-90 for one action: the cutoff the comparison is made with
CutoffFor(cutoff_time, timestamp_dt) ==
    IF timestamp_dt.aware
    THEN ReplaceTzinfo(cutoff_time, TRUE, timestamp_dt.offset)
    ELSE cutoff_time

RECURSIVE FilterLoop(_, _, _, _)
\* lines 79-94: the loop over the actions from the i-th on
FilterLoop(acts, i, cutoff_time, filtered) ==
    IF i > Len(acts) THEN filtered
    ELSE LET action == acts[i]
             timestamp_str == action.timestamp
         IN  IF timestamp_str.t = "null" \/ timestamp_str.form = "empty"
             THEN FilterLoop(acts, i + 1, cutoff_time, filtered)
             ELSE IF ParseTimestamp(timestamp_str).t = "raise"
             THEN FilterLoop(acts, i + 1, cutoff_time, filtered)
             ELSE LET timestamp_dt == ParseTimestamp(timestamp_str).v
                      compared == DatetimeGE(timestamp_dt, CutoffFor(cutoff_time, timestamp_dt))
                  IN  FilterLoop(acts, i + 1, NextCutoff(cutoff_time, timestamp_dt),
                                 IF compared.t = "bool" /\ compared.v
                                 THEN Append(filtered, action) ELSE filtered)

\* filter_actions_by_time(actions, days)
filter_actions_by_time(acts, days) ==
    IF acts = <<>> THEN <<>>
    ELSE FilterLoop(acts, 1, Datetime(NowWall - days * 24, FALSE, 0), <<>>)

\* lines 198-200: the time filter 'Past 7 Days' is applied to the actions
FilterByTime ==
    /\ page = "dashboard"
    /\ pc = "filter"
    /\ filtered_actions' = filter_actions_by_time(actions, FilterDays)
    /\ pc' = "idle"
    /\ shown' = "actions"
    /\ UNCHANGED <<session_state, PYYAML_AVAILABLE, trigger, updated_settings, warnings,
                   backend, cache, now, gets>>
    /\ UNCHANGED <<configVars, key_warning, profiles, history_cache, stats_cache,
                   history_gets, stats_gets, fetched, actions, botVars>>

\* nothing of the other pages has run: no cache entry, the session state of
\* the run page as lines 16-21 create it
FirstRun ==
    /\ key_warning = FALSE
    /\ profiles = 0
    /\ history_cache = NoCache
    /\ stats_cache = NoCache
    /\ history_gets = 0
    /\ stats_gets = 0
    /\ fetched = NotFetched
    /\ bot_api_status = "unknown"
    /\ last_status_fetch_time = Epoch
    /\ bot_logs = <<LineWaiting>>
    /\ run_disabled = TRUE
    /\ stop_disabled = TRUE
    /\ logs_fetch = NoFetch
    /\ commands = 0
    /\ bot_contacted = FALSE

\* the time filter of the dashboard has not been used
NoActions == actions = <<>> /\ filtered_actions = <<>>

\* an edit session: a document has just been fetched into memory
Init ==
    /\ \E d \in Docs :
          /\ session_state = (KeyCurrentSettingsData :> d) @@ (KeySettingsFetchError :> PyNone)
          /\ backend = d
          /\ cache = [at |-> 0, value |-> d, error |-> FALSE]
          /\ PYYAML_AVAILABLE \in (IF d \in YamlDocs THEN BOOLEAN ELSE {TRUE})
    /\ pc = "run"
    /\ trigger = "none"
    /\ updated_settings = PyNone
    /\ warnings = <<>>
    /\ shown = "none"
    /\ now = 0
    /\ gets = 1
    /\ BOT_API_URL = TRUE
    /\ API_KEY = TRUE
    /\ page = "settings_editor"
    /\ FirstRun
    /\ NoActions
    /\ bot_state = "idle"
    /\ bot_batch = <<>>

Next ==
    \/ RenderPage
    \/ EditField
    \/ \E button \in {"save", "reload"} : Press(button)
    \/ BuildUpdated
    \/ SaveSettings
    \/ ReloadSettings

Spec == Init /\ [][Next]_vars

\* the page from its first run: nothing in memory, nothing cached
InitPage ==
    /\ session_state = (KeyCurrentSettingsData :> PyNone) @@ (KeySettingsFetchError :> PyNone)
    /\ backend \in PageDocs
    /\ cache = NoCache
    /\ PYYAML_AVAILABLE = TRUE
    /\ pc = "run"
    /\ trigger = "none"
    /\ updated_settings = PyNone
    /\ warnings = <<>>
    /\ shown = "none"
    /\ now = 0
    /\ gets = 0
    /\ BOT_API_URL = TRUE
    /\ API_KEY = TRUE
    /\ page = "settings_editor"
    /\ FirstRun
    /\ NoActions
    /\ bot_state = "idle"
    /\ bot_batch = <<>>

NextPage ==
    \/ LoadSettings
    \/ RenderPage
    \/ EditField
    \/ \E button \in {"save", "reload", "retry"} : Press(button)
    \/ BuildUpdated
    \/ SaveSettings
    \/ ReloadSettings
    \/ Tick

SpecPage == InitPage /\ [][NextPage]_vars

\* the document of the backend in the sessions of the whole site
SiteDoc == PyDict(<<<<KeyGlobal, PyDict(<<<<KeyX, PyBool(TRUE)>>>>)>>>>)

\* a session opens one of the four pages, with or without the two secrets
InitSite ==
    /\ session_state = (KeyCurrentSettingsData :> PyNone) @@ (KeySettingsFetchError :> PyNone)
    /\ backend = SiteDoc
    /\ cache = NoCache
    /\ PYYAML_AVAILABLE = TRUE
    /\ pc = "run"
    /\ trigger = "none"
    /\ updated_settings = PyNone
    /\ warnings = <<>>
    /\ shown = "none"
    /\ now = 0
    /\ gets = 0
    /\ BOT_API_URL \in BOOLEAN
    /\ API_KEY \in BOOLEAN
    /\ page \in {"dashboard", "run_bot", "settings_editor", "profile_stats"}
    /\ FirstRun
    /\ NoActions
    /\ \/ bot_state = "idle" /\ bot_batch = <<>>
       \/ bot_state = "running" /\ bot_batch = <<Line1>>

NextSite ==
    \/ ConfigHalt
    \/ LoadSettings
    \/ RenderPage
    \/ EditField
    \/ \E button \in {"save", "reload", "retry", "start", "stop", "refresh"} : Press(button)
    \/ BuildUpdated
    \/ SaveSettings
    \/ ReloadSettings
    \/ DashboardRun
    \/ StatsRun
    \/ Interact
    \/ BackendChanges
    \/ RunBotRefresh
    \/ RunBotControls
    \/ RunBotDisplay
    \/ AutoRefresh
    \/ BotProgress
    \/ Tick

SpecSite == InitSite /\ [][NextSite]_vars

MaxActions == 3

\* the timestamps of the actions: before, at and after the cutoff, without
\* offset, with an offset and with Z, and the ones that do not parse
Timestamps ==
    {NoTimestamp,
     TimestampStr("empty", 0, 0),
     TimestampStr("bad", 0, 0),
     TimestampStr("naive", NowWall - FilterDays * 24 - 24, 0),
     TimestampStr("naive", NowWall - FilterDays * 24, 0),
     TimestampStr("naive", NowWall - 24, 0),
     TimestampStr("zulu", NowWall - FilterDays * 24 - 24, 0),
     TimestampStr("zulu", NowWall - 24, 0),
     TimestampStr("offset", NowWall - 24, 5)}

ActionLists == UNION {[1..n -> [timestamp : Timestamps]] : n \in 0..MaxActions}

\* the dashboard has loaded the history and is about to filter a list of
\* actions by time
InitFilter ==
    /\ session_state = (KeyCurrentSettingsData :> PyNone) @@ (KeySettingsFetchError :> PyNone)
    /\ backend = SiteDoc
    /\ cache = NoCache
    /\ PYYAML_AVAILABLE = TRUE
    /\ pc = "filter"
    /\ trigger = "none"
    /\ updated_settings = PyNone
    /\ warnings = <<>>
    /\ shown = "history"
    /\ now = 0
    /\ gets = 0
    /\ BOT_API_URL = TRUE
    /\ API_KEY = TRUE
    /\ page = "dashboard"
    /\ FirstRun
    /\ bot_state = "idle"
    /\ bot_batch = <<>>
    /\ actions \in ActionLists
    /\ filtered_actions = <<>>

NextFilter == FilterByTime

SpecFilter == InitFilter /\ [][NextFilter]_vars

\* ------------------------------------------------------------------------
\* Properties
\* ------------------------------------------------------------------------
\* the paths of the leaves of a document: the walk descends into dicts only
RECURSIVE LeafPaths(_, _)
LeafPaths(value, prefix) ==
    IF value.t = "map"
    THEN UNION {LeafPaths(value.v[i][2], Append(prefix, value.v[i][1])) : i \in 1..Len(value.v)}
    ELSE {prefix}

RECURSIVE ValueAt(_, _)
ValueAt(value, path) ==
    IF Len(path) = 0 THEN value ELSE ValueAt(Get(value, path[1]), Tail(path))

LastKey(path) == path[Len(path)]

\* the paths the form created a widget for
BoundPaths(doc) == {FormFields(doc)[i].path : i \in 1..Len(FormFields(doc))}

\* the payload has just been built from the document in memory and the
\* session state
Built == pc = "save"

\* every widget still holds the value it was created with
NothingEdited ==
    \A i \in 1..Len(FormFields(current_settings_data)) :
        session_state[FormFields(current_settings_data)[i].wkey]
            = FormFields(current_settings_data)[i].initial

\* C1: round trip -- when every bound field holds the value render_setting
\* first displayed and the operator changed nothing, build_updated_settings
\* returns a document equal to the original.
RoundTrip ==
    (Built /\ NothingEdited) => updated_settings = current_settings_data

\* C2: type preservation -- every leaf of the returned document has the type
\* (null, bool, int, float, string, list) of the original leaf at that path.
TypePreserved ==
    Built => \A p \in LeafPaths(current_settings_data, <<>>) :
                ValueAt(updated_settings, p).t = ValueAt(current_settings_data, p).t

\* C3: a list rendered read-only (its key is no text-area name and it is not
\* an editable session_types list) is copied unchanged into the returned
\* document.
ReadOnlyListsCopied ==
    Built => \A p \in LeafPaths(current_settings_data, <<>>) :
                (/\ ValueAt(current_settings_data, p).t = "list"
                 /\ Disabled(LastKey(p), ValueAt(current_settings_data, p)))
                => ValueAt(updated_settings, p) = ValueAt(current_settings_data, p)

\* C4: unbound leaf preservation -- every leaf the form bound no field to
\* (among them every leaf under a top-level key the page never renders) is in
\* the returned document with its original value.
UnboundLeavesKept ==
    Built => \A p \in LeafPaths(current_settings_data, <<>>) \ BoundPaths(current_settings_data) :
                ValueAt(updated_settings, p) = ValueAt(current_settings_data, p)

\* out has a dict wherever orig has one, with the same keys in the same order
RECURSIVE SameKeys(_, _)
SameKeys(orig, out) ==
    orig.t = "map" =>
        /\ out.t = "map"
        /\ Len(out.v) = Len(orig.v)
        /\ \A i \in 1..Len(orig.v) :
              /\ out.v[i][1] = orig.v[i][1]
              /\ SameKeys(orig.v[i][2], out.v[i][2])

\* C5: structure preservation -- at every dict of the original the returned
\* document has a dict with exactly the same keys in the same order, and the
\* payload a successful save hands to the backend is that whole document.
StructurePreserved ==
    [][Built => /\ SameKeys(current_settings_data, updated_settings)
                /\ shown' = "saved" => /\ backend' = updated_settings
                                       /\ SameKeys(current_settings_data, backend')]_vars

\* a payload was built for a document of nested dicts: one leaf has no widget,
\* another was changed by the operator, and the keys are those of the original
StructureWitness ==
    /\ Built
    /\ \E p, q \in LeafPaths(current_settings_data, <<>>) :
          /\ Len(p) = 2
          /\ unique_key(p) \notin DOMAIN session_state
          /\ ValueAt(updated_settings, q) # ValueAt(current_settings_data, q)
    /\ SameKeys(current_settings_data, updated_settings)

\* the leaves whose conversion raised
FailedPaths ==
    {p \in LeafPaths(current_settings_data, <<>>) :
        /\ unique_key(p) \in DOMAIN session_state
        /\ Converted(LastKey(p), ValueAt(current_settings_data, p),
                     session_state[unique_key(p)]).t = "raise"}

\* C6: per-leaf failure isolation -- a leaf whose conversion fails keeps its
\* original value and is warned about, the walk still returns the whole
\* document, and every other leaf with a field value carries its own
\* converted value.
FailureIsolated ==
    Built =>
        /\ SameKeys(current_settings_data, updated_settings)
        /\ Len(warnings) = Cardinality(FailedPaths)
        /\ \A p \in LeafPaths(current_settings_data, <<>>) :
              unique_key(p) \in DOMAIN session_state =>
                 IF p \in FailedPaths
                 THEN /\ ValueAt(updated_settings, p) = ValueAt(current_settings_data, p)
                      /\ InSeq(unique_key(p), warnings)
                 ELSE ValueAt(updated_settings, p)
                         = Converted(LastKey(p), ValueAt(current_settings_data, p),
                                     session_state[unique_key(p)])

\* an int or float leaf whose raw value does not parse kept its value, while
\* another leaf, edited by the operator, carries its edit
FailureWitness ==
    /\ Built
    /\ \E p \in FailedPaths, q \in BoundPaths(current_settings_data) :
          /\ ValueAt(current_settings_data, p).t \in {"int", "float"}
          /\ session_state[unique_key(p)].t = "str"
          /\ ValueAt(updated_settings, p) = ValueAt(current_settings_data, p)
          /\ q # p
          /\ ValueAt(updated_settings, q) # ValueAt(current_settings_data, q)
          /\ ValueAt(updated_settings, q) = session_state[unique_key(q)]

\* C7: a failed settings fetch is surfaced and not retried automatically --
\* once a fetch failure is recorded, the backend is contacted again only after
\* the run has reached the inline error display (where it stops until the
\* operator presses the retry button).
FetchFailureSurfaced ==
    [][(Truthy(settings_fetch_error) /\ gets' > gets) => shown = "fetch_error"]_vars

\* C8: session life cycle -- a successful save and a manual reload set the
\* document in memory to None and clear the fetch cache, and the run that
\* follows obtains the document from the backend, not from memory or cache.
SessionDiscarded ==
    [][/\ ((pc = "save" /\ shown' = "saved") \/ (pc = "reload" /\ pc' # "reload"))
          => /\ current_settings_data' = PyNone
             /\ cache' = NoCache
             /\ pc' = "run"
       /\ (/\ pc = "run"
           /\ current_settings_data = PyNone
           /\ ~Truthy(settings_fetch_error)
           /\ session_state' # session_state)
          => /\ cache = NoCache
             /\ gets' = gets + 1
             /\ current_settings_data' \in {backend, PyNone}]_vars

\* after a successful save the document in memory is the one fetched again
\* from the backend
SessionWitness ==
    /\ shown = "saved"
    /\ pc = "run"
    /\ gets >= 2
    /\ current_settings_data = backend
    /\ cache.value = backend /\ cache.at = now

\* C9: idempotence -- applying build_updated_settings with the same field
\* values to its own result returns that result again.
Idempotent ==
    Built => build_updated_settings(updated_settings, <<>>) = updated_settings

\* a payload that differs from the original, built while one conversion
\* failed, is reproduced by a second application
IdempotentWitness ==
    /\ Built
    /\ updated_settings # current_settings_data
    /\ Len(warnings) > 0
    /\ build_updated_settings(updated_settings, <<>>) = updated_settings

\* the serial_numbers list leaves that have a field value
SerialPaths ==
    {p \in LeafPaths(current_settings_data, <<>>) :
        /\ LastKey(p) = KeySerialNumbers
        /\ ValueAt(current_settings_data, p).t = "list"
        /\ unique_key(p) \in DOMAIN session_state
        /\ session_state[unique_key(p)].t = "str"}

\* the trimmed lines of a text that int() accepts, and those made of digits
ParsingLines(text) ==
    SelectSeq([i \in 1..Len(splitlines(text)) |-> strip(splitlines(text)[i])],
              LAMBDA l : IntOfStr(l).t = "int")

DigitLines(text) ==
    SelectSeq([i \in 1..Len(splitlines(text)) |-> strip(splitlines(text)[i])],
              LAMBDA l : isdigit(l))

\* C10 as stated: the serial_numbers leaf becomes the integers of exactly
\* those trimmed non-empty lines of the raw text that parse as integers.
SerialLinesThatParse ==
    Built => \A p \in SerialPaths :
                ValueAt(updated_settings, p)
                   = PyList([i \in 1..Len(ParsingLines(session_state[unique_key(p)].v)) |->
                                IntOfStr(ParsingLines(session_state[unique_key(p)].v)[i])])

\* C10: integer-per-line list -- the serial_numbers leaf becomes, in order,
\* the integers of exactly those trimmed lines of the raw text that consist of
\* digits only; every other line, a signed integer such as "-5" included, is
\* dropped without a warning.  When a line of digits is one int() rejects
\* (a superscript digit), the leaf keeps its original value with a warning.
SerialDigitLines ==
    Built => \A p \in SerialPaths :
                LET ds == DigitLines(session_state[unique_key(p)].v)
                IN  IF \A i \in 1..Len(ds) : \A j \in 1..Len(ds[i]) : IsAsciiDigit(ds[i][j])
                    THEN /\ ValueAt(updated_settings, p)
                               = PyList([i \in 1..Len(ds) |-> PyInt(DigitsValue(ds[i], 0))])
                         /\ ~InSeq(unique_key(p), warnings)
                    ELSE /\ ValueAt(updated_settings, p) = ValueAt(current_settings_data, p)
                         /\ InSeq(unique_key(p), warnings)

\* the raw text "f", "5", "", "-5" on four lines gave [5]
SerialWitness ==
    /\ Built
    /\ \E p \in SerialPaths :
          /\ session_state[unique_key(p)].v = <<"f", "\n", "5", "\n", "\n", "-", "5">>
          /\ ValueAt(updated_settings, p) = PyList(<<PyInt(5)>>)

\* the simple string list leaves that have a raw text
SimpleListPaths ==
    {p \in LeafPaths(current_settings_data, <<>>) :
        /\ InSeq(LastKey(p), SimpleListKeys)
        /\ ValueAt(current_settings_data, p).t = "list"
        /\ unique_key(p) \in DOMAIN session_state
        /\ session_state[unique_key(p)].t = "str"}

\* the trimmed lines of a text that are not empty
TrimmedLines(text) ==
    SelectSeq([i \in 1..Len(splitlines(text)) |-> strip(splitlines(text)[i])],
              LAMBDA l : Len(l) > 0)

\* C11: multiline string list -- a simple string list leaf (sender_email,
\* ad_identifiers, regular_engagement_skip_senders) becomes the lines of the
\* raw text, split on line breaks, trimmed, the empty ones dropped, in order,
\* as strings, without a warning.
SimpleListLines ==
    Built => \A p \in SimpleListPaths :
                /\ ValueAt(updated_settings, p)
                      = PyList([i \in 1..Len(TrimmedLines(session_state[unique_key(p)].v)) |->
                                   PyStr(TrimmedLines(session_state[unique_key(p)].v)[i])])
                /\ ~InSeq(unique_key(p), warnings)

\* the raw text "a", "b", "", "c" on four lines gave ["a", "b", "c"]
SimpleListWitness ==
    /\ Built
    /\ \E p \in SimpleListPaths :
          /\ session_state[unique_key(p)].v = <<"a", "\n", "b", "\n", "\n", "c">>
          /\ ValueAt(updated_settings, p)
                = PyList(<<PyStr(<<"a">>), PyStr(<<"b">>), PyStr(<<"c">>)>>)

\* the group_id leaves that are null or a string and have a raw text
GroupIdPaths ==
    {p \in LeafPaths(current_settings_data, <<>>) :
        /\ LastKey(p) = KeyGroupId
        /\ ValueAt(current_settings_data, p).t \in {"null", "str"}
        /\ unique_key(p) \in DOMAIN session_state
        /\ session_state[unique_key(p)].t = "str"}

\* C12: group id -- at a group_id leaf that is null or a string, an empty raw
\* text gives null and a non-empty raw text gives exactly that string.
GroupIdNull ==
    Built => \A p \in GroupIdPaths :
                ValueAt(updated_settings, p)
                   = IF Len(session_state[unique_key(p)].v) = 0 THEN PyNone
                     ELSE PyStr(session_state[unique_key(p)].v)

\* a null group_id was given the text "42" and a payload was built with the
\* string "42"
GroupIdWitness ==
    /\ Built
    /\ \E p \in GroupIdPaths :
          /\ ValueAt(current_settings_data, p) = PyNone
          /\ session_state[unique_key(p)] = PyStr(<<"4", "2">>)
          /\ ValueAt(updated_settings, p) = PyStr(<<"4", "2">>)

\* a group_id string was emptied and a payload was built with null
GroupIdEmptied ==
    /\ Built
    /\ \E p \in GroupIdPaths :
          /\ ValueAt(current_settings_data, p).t = "str"
          /\ Len(ValueAt(current_settings_data, p).v) > 0
          /\ session_state[unique_key(p)] = PyStr(<<>>)
          /\ ValueAt(updated_settings, p) = PyNone

\* the session_types list leaves that have a field value
SessionTypesPaths ==
    {p \in LeafPaths(current_settings_data, <<>>) :
        /\ LastKey(p) = KeySessionTypes
        /\ ValueAt(current_settings_data, p).t = "list"
        /\ unique_key(p) \in DOMAIN session_state}

IsListOfMaps(w) == w.t = "list" /\ \A i \in 1..Len(w.v) : w.v[i].t = "map"

\* C13: YAML list fallback -- a session_types list leaf becomes the parsed
\* value only when the raw text parses to a list of maps; in every other case
\* (parse failure, a result that is no list) it keeps its original value.
\* Stated for the runs in which PyYAML is installed, the others parse nothing.
YamlListOfMapsOnly ==
    (Built /\ PYYAML_AVAILABLE) => \A p \in SessionTypesPaths :
                ValueAt(updated_settings, p)
                   = IF IsListOfMaps(yaml_load(session_state[unique_key(p)]))
                     THEN yaml_load(session_state[unique_key(p)])
                     ELSE ValueAt(current_settings_data, p)

\* the integer fields of the leaves keyed threads in the document in memory
ThreadsFields ==
    IF current_settings_data.t # "map" THEN {}
    ELSE {FormFields(current_settings_data)[i] : i \in
             {j \in 1..Len(FormFields(current_settings_data)) :
                 /\ LastKey(FormFields(current_settings_data)[j].path) = KeyThreads
                 /\ FormFields(current_settings_data)[j].value.t = "int"}}

\* C16: thread-count bounds -- the integer field of a leaf keyed threads is
\* given min_value 1 and max_value 4, whatever its value and whatever other
\* keys the document holds.
ThreadsBounds ==
    \A f \in ThreadsFields : f.bounds = [min |-> {1}, max |-> {4}]

\* the form is shown for a document with threads 3 next to another key, and
\* the field of threads has its widget
ThreadsWitness ==
    /\ FormShown
    /\ \E f \in ThreadsFields :
          /\ f.value = PyInt(3)
          /\ f.bounds = [min |-> {1}, max |-> {4}]
          /\ f.wkey \in DOMAIN session_state
          /\ Len(FormFields(current_settings_data)) > 1

\* a document with threads 7 was given the same bounds, and number_input
\* raised on it
ThreadsAboveMax ==
    /\ pc = "crashed"
    /\ \E f \in ThreadsFields : f.value = PyInt(7) /\ f.bounds = [min |-> {1}, max |-> {4}]

\* C17 as stated: for the document {"a": true, "b": {"c": 3}} the form holds
\* exactly two fields, a checkbox at ["a"] and an unconstrained integer input
\* at ["b","c"].
ScenarioAtTopLevel ==
    (FormShown /\ current_settings_data = ScenarioDoc) =>
        LET fields == FormFields(current_settings_data)
        IN  /\ Len(fields) = 2
            /\ fields[1].path = <<KeyA>> /\ fields[1].value.t = "bool"
            /\ fields[2].path = <<KeyB, KeyC>> /\ fields[2].value.t = "int"

\* C17: end-to-end scenario -- the form renders the sections global,
\* google_sheets, newsletters, engagement and query_settings only.  For
\* {"global": {"a": true, "b": {"c": 3}}} it holds exactly two fields, a
\* checkbox at ["global","a"] and an integer input without bounds at
\* ["global","b","c"]; with a set to false and c to 7 (the text "7" converts
\* to 7 as well) the payload is {"global": {"a": false, "b": {"c": 7}}}.  For
\* {"a": true, "b": {"c": 3}} itself the form holds no field and the payload
\* is the document unchanged.
ScenarioInSection ==
    /\ current_settings_data = ScenarioGlobalDoc =>
          LET fields == FormFields(current_settings_data)
          IN  /\ Len(fields) = 2
              /\ fields[1].path = <<KeyGlobal, KeyA>>
              /\ fields[1].value.t = "bool" /\ ~fields[1].disabled
              /\ fields[2].path = <<KeyGlobal, KeyB, KeyC>>
              /\ fields[2].value.t = "int" /\ ~fields[2].disabled
              /\ fields[2].bounds = [min |-> {}, max |-> {}]
              /\ Converted(KeyC, PyInt(3), PyStr(<<"7">>)) = PyInt(7)
              /\ (/\ Built
                  /\ session_state[fields[1].wkey] = PyBool(FALSE)
                  /\ session_state[fields[2].wkey] = PyInt(7))
                 => updated_settings
                       = PyDict(<<<<KeyGlobal,
                                   PyDict(<<<<KeyA, PyBool(FALSE)>>,
                                            <<KeyB, PyDict(<<<<KeyC, PyInt(7)>>>>)>>>>)>>>>)
    /\ current_settings_data = ScenarioDoc =>
          /\ FormFields(current_settings_data) = <<>>
          /\ Built => updated_settings = ScenarioDoc

\* the two fields of the scenario were set to false and 7 and the payload
\* was built
ScenarioWitness ==
    /\ Built
    /\ current_settings_data = ScenarioGlobalDoc
    /\ session_state[unique_key(<<KeyGlobal, KeyA>>)] = PyBool(FALSE)
    /\ session_state[unique_key(<<KeyGlobal, KeyB, KeyC>>)] = PyInt(7)
    /\ ValueAt(updated_settings, <<KeyGlobal, KeyA>>) = PyBool(FALSE)
    /\ ValueAt(updated_settings, <<KeyGlobal, KeyB, KeyC>>) = PyInt(7)

\* C19: null leaves are read-only -- a null leaf whose key is not group_id is
\* rendered as a disabled field, and in the payload built after the render
\* its value is still null.
NullLeavesStayNull ==
    Built => \A p \in LeafPaths(current_settings_data, <<>>) :
                (ValueAt(current_settings_data, p) = PyNone /\ LastKey(p) # KeyGroupId)
                => /\ Disabled(LastKey(p), ValueAt(current_settings_data, p))
                   /\ ValueAt(updated_settings, p) = PyNone

\* the value a leaf has in the payload while its own field (if it has one)
\* still holds the value it was created with
UneditedValue(doc, p) ==
    IF p \notin BoundPaths(doc) THEN ValueAt(doc, p)
    ELSE LET c == Converted(LastKey(p), ValueAt(doc, p),
                            InitialValue(LastKey(p), ValueAt(doc, p)))
         IN  IF c.t = "raise" THEN ValueAt(doc, p) ELSE c

\* the leaves whose own field was changed by the operator
EditedPaths(doc) ==
    {p \in BoundPaths(doc) :
        session_state[unique_key(p)] # InitialValue(LastKey(p), ValueAt(doc, p))}

\* C20: edit isolation -- two leaves with different paths have different
\* fields, so in the document build_updated_settings returns only the leaves
\* whose own field was edited differ from what they are without any edit.
EditIsolated ==
    Built =>
        /\ \A p, q \in LeafPaths(current_settings_data, <<>>) :
              p # q => unique_key(p) # unique_key(q)
        /\ \A p \in LeafPaths(current_settings_data, <<>>) \ EditedPaths(current_settings_data) :
              ValueAt(updated_settings, p) = UneditedValue(current_settings_data, p)

\* ------------------------------------------------------------------------
\* Configuration check, caches of the fetches, log buffer
\* ------------------------------------------------------------------------
\* a request was sent to the backend
Contacted ==
    gets > 0 \/ history_gets > 0 \/ stats_gets > 0 \/ bot_contacted \/ commands > 0

\* the page shows something else than the configuration error
Rendered == shown \notin {"none", "config_error"}

\* C14, as stated: on every page, when the backend URL or the API key is
\* missing, the page halts before any fetch, render or control action
ConfigErrorIsFatal ==
    (~BOT_API_URL \/ ~API_KEY) =>
        /\ ~Contacted
        /\ ~Rendered
        /\ pc \in {"run", "stopped"}

\* C14: on every page, when the backend URL is missing, the page halts before
\* any fetch, render or control action; the page shows the configuration
\* error in that case only, and a missing API key alone gives a warning on a
\* page that goes on
MissingUrlIsFatal ==
    /\ ~BOT_API_URL =>
          /\ ~Contacted
          /\ ~Rendered
          /\ ~key_warning
          /\ pc \in {"run", "stopped"}
    /\ shown = "config_error" => ~BOT_API_URL
    /\ key_warning => (~API_KEY /\ BOT_API_URL)

\* a page without BOT_API_URL has halted on the error
ConfigHalted == ~BOT_API_URL /\ pc = "stopped" /\ shown = "config_error"

\* a page without BOT_API_KEY has warned, sent its request and rendered
WarnedAndWentOn == ~API_KEY /\ key_warning /\ Contacted /\ Rendered

\* a step of the page, not of the clock, the bot or its data
PageStep == UNCHANGED <<now, bot_state, bot_batch, profiles>>

\* the steps in which a page calls its cached fetch
SettingsRequest ==
    /\ page = "settings_editor" /\ pc = "run" /\ ~ConfigError
    /\ current_settings_data = PyNone
    /\ PageStep

HistoryRequest ==
    page = "dashboard" /\ pc = "run" /\ ~ConfigError /\ PageStep

StatsRequest ==
    page = "profile_stats" /\ pc = "run" /\ ~ConfigError /\ PageStep

\* C15: a fetch result is held for 30 s (settings) or 60 s (history, stats):
\* a request within the window of an entry returns the entry and sends
\* nothing to the backend, a request after the window or after a cache clear
\* goes to the backend and starts a new window
TTLCache ==
    [][ /\ SettingsRequest =>
              IF cache # NoCache /\ now - cache.at < 30
              THEN /\ gets' = gets
                   /\ cache' = cache
                   /\ session_state'[KeyCurrentSettingsData] = cache.value
              ELSE /\ gets' = gets + 1
                   /\ cache'.at = now
        /\ HistoryRequest =>
              IF history_cache # NoCache /\ now - history_cache.at < 60
              THEN /\ history_gets' = history_gets
                   /\ history_cache' = history_cache
                   /\ fetched'.value = history_cache.value
              ELSE /\ history_gets' = history_gets + 1
                   /\ history_cache'.at = now
        /\ StatsRequest =>
              IF stats_cache # NoCache /\ now - stats_cache.at < 60
              THEN /\ stats_gets' = stats_gets
                   /\ stats_cache' = stats_cache
                   /\ fetched'.value = stats_cache.value
              ELSE /\ stats_gets' = stats_gets + 1
                   /\ stats_cache'.at = now
      ]_vars

\* the dashboard asked again when the window of its first fetch had elapsed,
\* and the request went to the backend
RefetchedAfterWindow ==
    /\ page = "dashboard"
    /\ history_gets = 2
    /\ history_cache.at >= HistoryTTL
    /\ fetched.at = history_cache.at

\* the dashboard asked again within the window and got the entry, although
\* the data of the backend had changed
ReusedWithinWindow ==
    /\ page = "dashboard"
    /\ history_gets = 1
    /\ fetched.at > history_cache.at
    /\ fetched.value = history_cache.value
    /\ fetched.value # Profiles(profiles)

\* C18: after a /logs fetch that succeeded the log buffer is the batch the
\* fetch returned, whatever the buffer held before; after a /logs fetch that
\* failed with a network error the buffer is what it was before the fetch
LogsFullReplace ==
    /\ logs_fetch.outcome = "ok" => bot_logs = logs_fetch.batch
    /\ logs_fetch.outcome = "network" => bot_logs = logs_fetch.before

\* a fetch replaced a buffer that ended with the marker of a stop command
MarkerReplaced ==
    /\ logs_fetch.outcome = "ok"
    /\ Len(logs_fetch.before) > 1
    /\ logs_fetch.before[Len(logs_fetch.before)] = LineStop
    /\ bot_logs = logs_fetch.batch
    /\ bot_logs # logs_fetch.before

\* a fetch failed with a network error and the marker stayed in the buffer
MarkerKept ==
    /\ logs_fetch.outcome = "network"
    /\ bot_logs = <<LineStart>>

\* ------------------------------------------------------------------------
\* Edit session: the document in memory
\* ------------------------------------------------------------------------
\* C21: once a document is in memory, every step of the page leaves it as it
\* is and asks neither the cache nor the backend for the settings, except the
\* step of a successful save and the step of a manual reload
DocumentStable ==
    [][current_settings_data # PyNone =>
          \/ pc = "save" /\ shown' = "saved"
          \/ pc = "reload"
          \/ /\ current_settings_data' = current_settings_data
             /\ gets' = gets
             /\ cache' = cache]_vars

\* the document fetched once is still the one in memory after a run with a
\* failed save, at a time when its cache entry has expired
DocumentKeptWitness ==
    /\ gets = 1
    /\ current_settings_data = cache.value
    /\ current_settings_data # PyNone
    /\ now - cache.at >= SettingsTTL
    /\ shown = "save_failed"
    /\ pc = "idle"

\* C22: a step in which the save fails leaves the document in memory, the
\* field values and the fetch cache as they are, sends no settings fetch,
\* shows the failure and ends the run without a rerun; and as long as the
\* failure is on the page no settings fetch is sent
FailedSaveKeepsSession ==
    [][/\ (pc = "save" /\ PageStep /\ shown' # "saved") =>
              /\ session_state' = session_state
              /\ cache' = cache
              /\ gets' = gets
              /\ shown' = "save_failed"
              /\ pc' = "idle"
       /\ shown = "save_failed" =>
              /\ current_settings_data' = current_settings_data
              /\ current_settings_data # PyNone
              /\ cache' = cache
              /\ gets' = gets]_vars

\* a save has failed: the failure is shown, the document is in memory and its
\* cache entry is still held
FailedSaveWitness ==
    /\ shown = "save_failed"
    /\ pc = "idle"
    /\ gets = 1
    /\ CacheHit
    /\ current_settings_data = cache.value
    /\ current_settings_data = backend
    /\ Truthy(current_settings_data)

\* ------------------------------------------------------------------------
\* Run page: the control buttons
\* ------------------------------------------------------------------------
\* the states a status can record
StatusStates == {"unknown", "idle", "starting", "running", "stopping", "stopped", "error"}

\* the run and the stop button as a function of the recorded state
ControlsOfState ==
    \A current_state \in StatusStates :
        /\ RunDisabled(current_state) \/ StopDisabled(current_state)
        /\ ~RunDisabled(current_state) <=> current_state \in {"idle", "error", "stopped"}
        /\ ~StopDisabled(current_state) <=> current_state \in {"running", "starting"}
        /\ current_state \in {"stopping", "unknown"} =>
              RunDisabled(current_state) /\ StopDisabled(current_state)

\* the buttons on the page are those of the recorded state
ControlsOfPage ==
    /\ run_disabled \/ stop_disabled
    /\ bot_api_status \in StatusStates
    /\ (page = "run_bot" /\ pc \in {"display", "sleep"}) =>
          /\ ~run_disabled <=> bot_api_status \in {"idle", "error", "stopped"}
          /\ ~stop_disabled <=> bot_api_status \in {"running", "starting"}
          /\ bot_api_status \in {"stopping", "unknown"} => run_disabled /\ stop_disabled

\* a run renders the buttons from the state recorded at that moment
ControlsRendered ==
    (page = "run_bot" /\ pc = "controls" /\ pc' # "controls") =>
        /\ ~run_disabled' <=> bot_api_status \in {"idle", "error", "stopped"}
        /\ ~stop_disabled' <=> bot_api_status \in {"running", "starting"}

\* C23: the run and the stop button are never both enabled; every run renders
\* the run button enabled exactly when the recorded state is idle, error or
\* stopped and the stop button exactly when it is running or starting, both
\* disabled in stopping and unknown, and the page between two runs shows the
\* buttons of the recorded state
ControlsExclusive ==
    /\ [](ControlsOfState /\ ControlsOfPage)
    /\ [][ControlsRendered]_vars

\* the page shows both buttons disabled while the bot is stopping, after a
\* stop command
StoppingWitness ==
    /\ page = "run_bot"
    /\ pc = "sleep"
    /\ bot_api_status = "stopping"
    /\ run_disabled /\ stop_disabled
    /\ commands = 1

\* the page shows the run button enabled and the stop button disabled
RunEnabledWitness ==
    /\ page = "run_bot"
    /\ pc = "sleep"
    /\ bot_api_status = "stopped"
    /\ ~run_disabled /\ stop_disabled

\* a run has recorded a state that the buttons on the page, rendered by the
\* run before, do not belong to
StaleControls ==
    /\ page = "run_bot"
    /\ pc = "controls"
    /\ bot_api_status = "stopping"
    /\ ~stop_disabled

\* ------------------------------------------------------------------------
\* Dashboard: the time filter
\* ------------------------------------------------------------------------
Filtered == page = "dashboard" /\ shown = "actions"

\* the action is kept when it is filtered by itself
KeptAlone(action) == filter_actions_by_time(<<action>>, FilterDays) = <<action>>

\* C24: filter_actions_by_time keeps an action if and only if it is kept when
\* filtered by itself, which needs a timestamp that parses, whatever actions
\* come before it; the result is the list of the kept actions in the order
\* of the input
OrderIndependentFilter ==
    Filtered =>
        /\ filtered_actions = SelectSeq(actions, KeptAlone)
        /\ \A i \in 1..Len(filtered_actions) :
              ParseTimestamp(filtered_actions[i].timestamp).t = "datetime"

\* what holds of the result whatever the order: it is a part of the list of
\* the actions kept by themselves, and all of it when no timestamp without
\* offset comes after one with an offset
FilterDropsOnly ==
    Filtered =>
        /\ Len(filtered_actions) <= Len(SelectSeq(actions, KeptAlone))
        /\ \A i \in 1..Len(filtered_actions) : KeptAlone(filtered_actions[i])
        /\ (\A i, j \in 1..Len(actions) :
               (i < j /\ ParseTimestamp(actions[i].timestamp).t = "datetime"
                      /\ ParseTimestamp(actions[j].timestamp).t = "datetime")
               => (ParseTimestamp(actions[i].timestamp).v.aware
                      => ParseTimestamp(actions[j].timestamp).v.aware))
           => filtered_actions = SelectSeq(actions, KeptAlone)

\* an action with a recent timestamp without offset was dropped after one
\* with an offset
DroppedAfterAware ==
    /\ Filtered
    /\ Len(actions) = 2
    /\ actions[1].timestamp = TimestampStr("zulu", NowWall - 24, 0)
    /\ actions[2].timestamp = TimestampStr("naive", NowWall - 24, 0)
    /\ filtered_actions = <<actions[1]>>
====
